---- MODULE Spec2Model ----
(***************************************************************************)
(* Software rasterizer of poppygl: SoftwareRenderer (clear, setPixel,      *)
(* drawLines, drawMesh), drawInfiniteGrid and the orchestrator             *)
(* renderDrawCalls.                                                        *)
(*                                                                         *)
(* Number representation.  Colour factors, alpha and the light term are    *)
(* JS numbers in [0,1]; they are kept in thousandths (One = 1.0).  A depth *)
(* z01 is a JS double; it is kept on an integer grid on which ZOne is 1.0. *)
(* The depth buffer is a Float32Array, so a store rounds the double to the *)
(* nearest float32; on the grid the float32 values are the multiples of    *)
(* F32Step.  A draw call of the model carries its vertices after the       *)
(* vertex stage (rounded screen position, z01 of the NDC depth and the     *)
(* clip w), which is what the triangle and line loops read.                *)
(***************************************************************************)
EXTENDS Integers, Sequences, FiniteSets, TLC

\* ---------------------------------------------------------------- bounds
Width == 3
Height == 2
MaxCalls == 2
MaxOps == 3
MaxRenders == 3

\* ------------------------------------------------------------- constants
One == 1000
ZOne == 16
F32Step == 4
Infinity == 1000000
DefaultAlphaCutoff == 500

NPixels == Width * Height
PixelIdx == 0 .. (NPixels - 1)

Min2(a, b) == IF a < b THEN a ELSE b
Max2(a, b) == IF a > b THEN a ELSE b
Abs(a) == IF a < 0 THEN 0 - a ELSE a

\* clamp(v, lo, hi) of utils/clamp
clamp(v, lo, hi) == IF v < lo THEN lo ELSE IF v > hi THEN hi ELSE v

\* A store into the Float32Array depth buffer: round to the nearest
\* float32, ties to even; Infinity is a float32.
Fround(z) ==
  IF z = Infinity THEN Infinity
  ELSE LET q == z \div F32Step
           r == z % F32Step
       IN IF 2 * r < F32Step THEN q * F32Step
          ELSE IF 2 * r > F32Step THEN (q + 1) * F32Step
          ELSE IF q % 2 = 0 THEN q * F32Step ELSE (q + 1) * F32Step

\* srgbEncodeLinear01 on thousandths: the transfer curve through its values
\* at the knots 0, 0.003, 0.05, 0.25, 0.5, 0.75, 1, linear in between.
SrgbKnots == << <<0, 0>>, <<3, 39>>, <<50, 248>>, <<250, 537>>,
                <<500, 735>>, <<750, 881>>, <<1000, 1000>> >>
srgbEncodeLinear01(linear) ==
  IF linear <= 0 THEN 0
  ELSE IF linear >= One THEN One
  ELSE LET k == CHOOSE i \in 1 .. (Len(SrgbKnots) - 1) :
                  SrgbKnots[i][1] <= linear /\ linear < SrgbKnots[i + 1][1]
           a == SrgbKnots[k]
           b == SrgbKnots[k + 1]
       IN a[2] + ((linear - a[1]) * (b[2] - a[2])) \div (b[1] - a[1])

\* (v * 255) | 0 for v in thousandths
ToByte(v) == (v * 255) \div One

\* Math.round(v * 255) for v in thousandths (round half up)
RoundByte(v) == (2 * v * 255 + One) \div (2 * One)

\* edge(a, b, p)
edge(a, b, p) == (p[1] - a[1]) * (b[2] - a[2]) - (p[2] - a[2]) * (b[1] - a[1])

\* Screen points are doubled so that the pixel centre (x + 0.5, y + 0.5) is
\* an integer point; an edge value on doubled points is 4 times the value.
Dbl(v) == <<2 * v[1], 2 * v[2]>>
Centre(x, y) == <<2 * x + 1, 2 * y + 1>>

\* material.alphaMode ?? "OPAQUE"
AlphaModeOf(material) ==
  IF "alphaMode" \in DOMAIN material THEN material.alphaMode ELSE "OPAQUE"

\* material.alphaCutoff ?? 0.5
AlphaCutoffOf(material) ==
  IF "alphaCutoff" \in DOMAIN material THEN material.alphaCutoff
  ELSE DefaultAlphaCutoff

\* ------------------------------------------------------- SoftwareRenderer
\* A renderer state: the bitmap bytes and the depth buffer, with the
\* bookkeeping of the call in progress: wrote (pixels whose colour was
\* stored), touched (the (x, y) of every colour or depth store), frags (the
\* z01 of every fragment that reached the depth test, per pixel) and passed
\* (the least z01 that passed the depth test since the last clear).

\* new SoftwareRenderer(width, height): a zero-filled bitmap and depth array
SoftwareRenderer ==
  [buffer |-> [p \in PixelIdx |-> <<0, 0, 0, 0>>],
   depth |-> [p \in PixelIdx |-> 0],
   passed |-> [p \in PixelIdx |-> Infinity],
   wrote |-> {}, touched |-> {},
   frags |-> [p \in PixelIdx |-> <<>>]]

\* the bookkeeping of a call is reset when the call starts
BeginCall(st) ==
  [st EXCEPT !.wrote = {}, !.touched = {}, !.frags = [p \in PixelIdx |-> <<>>]]

\* clear(colorRGBA)
clear(st, colorRGBA) ==
  [st EXCEPT !.buffer = [p \in PixelIdx |-> colorRGBA],
             !.depth = [p \in PixelIdx |-> Infinity],
             !.passed = [p \in PixelIdx |-> Infinity]]

\* A store buffer[idx..idx+3] = rgba of a typed array: ignored out of range
StoreRGBA(buf, di, rgba) ==
  IF di \in DOMAIN buf THEN [buf EXCEPT ![di] = rgba] ELSE buf

\* A store depth[di] = z of the Float32Array: ignored out of range
StoreDepth(dep, di, z) ==
  IF di \in DOMAIN dep THEN [dep EXCEPT ![di] = Fround(z)] ELSE dep

\* setPixel's guard without the test x >= width
InBoundsNoRight(x, y) == ~(x < 0 \/ y < 0 \/ y >= Height)

\* the guard of setPixel
InBounds(x, y) == ~(x < 0 \/ y < 0 \/ x >= Width \/ y >= Height)

\* the pixel index with the rows strided by the height
PixelIndexByHeight(x, y) == y * Height + x

\* the pixel index y * width + x
PixelIndex(x, y) == y * Width + x

\* setPixel(x, y, r, g, b, a)
setPixel(st, x, y, rgba) ==
  IF ~InBounds(x, y) THEN st
  ELSE [st EXCEPT !.buffer = StoreRGBA(@, PixelIndex(x, y), rgba),
                  !.wrote = @ \cup {PixelIndex(x, y)},
                  !.touched = @ \cup {<<x, y>>}]

\* indices ?? [0, 1, ..., vertexCount - 1]
IndicesOf(mesh) ==
  IF "indices" \in DOMAIN mesh THEN mesh.indices
  ELSE [i \in 1 .. Len(mesh.verts) |-> i - 1]

\* idx[i] names a vertex whose inv_w is finite: isFinite(vInvW[idx[i]]).
\* An index past the arrays reads undefined, which is not finite.
FiniteVertex(mesh, idx, i) ==
  /\ i + 1 \in DOMAIN idx
  /\ idx[i + 1] + 1 \in DOMAIN mesh.verts
  /\ mesh.verts[idx[i + 1] + 1].w # 0

\* the depth test of drawMesh: if (z01 >= depth[di]) continue
DepthTestFails(z01, d) == z01 >= d

\* the fragment is a MASK fragment below the cutoff
MaskDiscards(material, a) ==
  AlphaModeOf(material) = "MASK" /\ a < AlphaCutoffOf(material)

\* const shouldWriteDepth = alphaMode !== "BLEND"
shouldWriteDepth(material) == AlphaModeOf(material) # "BLEND"

\* r, g, b before the output transfer: baseColorFactor times the light term
LitColor(mesh, material) ==
  [c \in 1 .. 3 |-> (material.baseColorFactor[c] * mesh.lit) \div One]

\* the output transfer: sRGB encode of the clamped value, or the clamp alone
OutputTransfer(v, gammaOut) ==
  IF gammaOut THEN srgbEncodeLinear01(clamp(v, 0, One)) ELSE clamp(v, 0, One)

\* the blend without the destination term
BlendByteSrcOnly(src, a, dstByte) ==
  clamp(src * a * 255, 0, 255 * One * One) \div (One * One)

\* (clamp(src * a + dst * (1 - a), 0, 1) * 255) | 0 with dst a byte over 255
BlendByte(src, a, dstByte) ==
  clamp(src * a * 255 + dstByte * (One - a) * One, 0, 255 * One * One)
    \div (One * One)

\* the RGBA bytes drawMesh hands to setPixel for a fragment of alpha a
MeshPixel(mesh, material, gammaOut, dst) ==
  LET a == material.baseColorFactor[4]
      lin == LitColor(mesh, material)
      rgb == [c \in 1 .. 3 |-> OutputTransfer(lin[c], gammaOut)]
  IN IF AlphaModeOf(material) = "BLEND" /\ a < One
     THEN << BlendByte(rgb[1], a, dst[1]), BlendByte(rgb[2], a, dst[2]),
             BlendByte(rgb[3], a, dst[3]), BlendByte(One, a, dst[4]) >>
     ELSE << ToByte(clamp(rgb[1], 0, One)), ToByte(clamp(rgb[2], 0, One)),
             ToByte(clamp(rgb[3], 0, One)), ToByte(clamp(a, 0, One)) >>

\* one pixel (x, y) of the bounding box of triangle (v0, v1, v2)
drawFragment(st, mesh, material, gammaOut, v0, v1, v2, x, y) ==
  LET p == Centre(x, y)
      a0 == Dbl(<<v0.sx, v0.sy>>)
      a1 == Dbl(<<v1.sx, v1.sy>>)
      a2 == Dbl(<<v2.sx, v2.sy>>)
      w0 == edge(a1, a2, p)
      w1 == edge(a2, a0, p)
      w2 == edge(a0, a1, p)
      area == edge(a0, a1, a2)
  IN IF w0 < 0 \/ w1 < 0 \/ w2 < 0 THEN st
     ELSE
       LET z01 == (w0 * v0.z + w1 * v1.z + w2 * v2.z) \div area
           di == PixelIndex(x, y)
           seen == [st EXCEPT !.frags[di] = Append(@, z01)]
       IN IF DepthTestFails(z01, seen.depth[di]) THEN seen
          ELSE
            LET tested == [seen EXCEPT !.depth = StoreDepth(@, di, z01),
                                       !.passed[di] = Min2(@, z01),
                                       !.touched = @ \cup {<<x, y>>}]
                a == material.baseColorFactor[4]
            IN IF MaskDiscards(material, a) THEN tested
               ELSE
                 LET deep == IF shouldWriteDepth(material)
                             THEN [tested EXCEPT !.depth = StoreDepth(@, di, z01)]
                             ELSE tested
                 IN setPixel(deep, x, y,
                             MeshPixel(mesh, material, gammaOut, deep.buffer[di]))

\* the bounding box of a triangle, clipped to the bitmap
BoxMinX(v0, v1, v2) == Max2(0, Min2(v0.sx, Min2(v1.sx, v2.sx)))
BoxMaxX(v0, v1, v2) == Min2(Width - 1, Max2(v0.sx, Max2(v1.sx, v2.sx)))
BoxMinY(v0, v1, v2) == Max2(0, Min2(v0.sy, Min2(v1.sy, v2.sy)))
BoxMaxY(v0, v1, v2) == Min2(Height - 1, Max2(v0.sy, Max2(v1.sy, v2.sy)))

\* the two pixel loops of a triangle, rows then columns, from (x, y) on;
\* s is the renderer as the body of the iteration leaves it
RECURSIVE drawBox(_, _, _, _, _, _, _, _, _)
drawBox(st, mesh, material, gammaOut, v0, v1, v2, x, y) ==
  IF y > BoxMaxY(v0, v1, v2) THEN st
  ELSE IF x > BoxMaxX(v0, v1, v2)
       THEN drawBox(st, mesh, material, gammaOut, v0, v1, v2,
                    BoxMinX(v0, v1, v2), y + 1)
       ELSE CHOOSE r \in
              { drawBox(s, mesh, material, gammaOut, v0, v1, v2, x + 1, y) :
                  s \in {drawFragment(st, mesh, material, gammaOut,
                                      v0, v1, v2, x, y)} } : TRUE

\* the triangle whose first index is idx[i]
drawTriangle(st, mesh, material, cullBackFaces, gammaOut, idx, i) ==
  IF ~(FiniteVertex(mesh, idx, i) /\ FiniteVertex(mesh, idx, i + 1)
       /\ FiniteVertex(mesh, idx, i + 2))
  THEN st
  ELSE
    LET v0 == mesh.verts[idx[i + 1] + 1]
        v1 == mesh.verts[idx[i + 2] + 1]
        v2 == mesh.verts[idx[i + 3] + 1]
        area == edge(<<v0.sx, v0.sy>>, <<v1.sx, v1.sy>>, <<v2.sx, v2.sy>>)
    IN IF area = 0 THEN st
       ELSE IF cullBackFaces /\ area < 0 THEN st
       ELSE drawBox(st, mesh, material, gammaOut, v0, v1, v2,
                    BoxMinX(v0, v1, v2), BoxMinY(v0, v1, v2))

\* for (let i = 0; i < idx.length; i += 3)
RECURSIVE drawTriangles(_, _, _, _, _, _, _)
drawTriangles(st, mesh, material, cullBackFaces, gammaOut, idx, i) ==
  IF i >= Len(idx) THEN st
  ELSE CHOOSE r \in
         { drawTriangles(s, mesh, material, cullBackFaces, gammaOut, idx, i + 3) :
             s \in {drawTriangle(st, mesh, material, cullBackFaces, gammaOut,
                                 idx, i)} } : TRUE

\* drawMesh(mesh, camera, light, material, cullBackFaces, gammaOut)
drawMesh(st, mesh, material, cullBackFaces, gammaOut) ==
  drawTriangles(BeginCall(st), mesh, material, cullBackFaces, gammaOut,
                IndicesOf(mesh), 0)

\* ----------------------------------------------------------------- lines
\* the colour of line vertex i: colors[i] when present and sized, else white
LineVertexColor(mesh, i) ==
  IF "colors" \in DOMAIN mesh /\ i + 1 \in DOMAIN mesh.colors
  THEN mesh.colors[i + 1]
  ELSE <<One, One, One, One>>

\* const hasVertexColors = colors && colors.length > 0
hasVertexColors(mesh) == "colors" \in DOMAIN mesh /\ Len(mesh.colors) > 0

\* Math.round(a + k * d / steps): round half up
RoundStep(a, k, d, steps) == (2 * (a * steps + k * d) + steps) \div (2 * steps)

\* a + k * (b - a) / steps on the grid of the values
LerpStep(a, b, k, steps) == a + (k * (b - a)) \div steps

\* drawLines without a depth test
LineDepthTestAlways(z, d) == TRUE

\* the depth test of drawLines: z < depth[di]
LineDepthTestPasses(z, d) == z < d

\* Math.round((src * srcA + dst * dstA * (1 - srcA)) / outA) on bytes
LineBlendByte(src255, a255, dst255, dstA255) ==
  LET n == src255 * a255 * 255 + dst255 * dstA255 * (255 - a255)
      d == a255 * 255 + dstA255 * (255 - a255)
  IN (2 * n + d) \div (2 * d)

\* Math.round(outA * 255) with outA = srcA + dstA * (1 - srcA)
LineBlendAlpha(a255, dstA255) ==
  LET d == a255 * 255 + dstA255 * (255 - a255)
  IN (2 * d + 255) \div (2 * 255)

\* the range test of a step without its far bound
LineStepVisibleNoFar(xi, yi, z) ==
  xi >= 0 /\ xi < Width /\ yi >= 0 /\ yi < Height /\ z >= 0

\* xi >= 0 && xi < width && yi >= 0 && yi < height && z >= 0 && z <= 1
LineStepVisible(xi, yi, z) ==
  xi >= 0 /\ xi < Width /\ yi >= 0 /\ yi < Height /\ z >= 0 /\ z <= ZOne

\* step k of the DDA walk from v0 to v1
drawLineStep(st, mesh, gammaOut, v0, v1, c0, c1, steps, k) ==
  LET xi == RoundStep(v0.sx, k, v1.sx - v0.sx, steps)
      yi == RoundStep(v0.sy, k, v1.sy - v0.sy, steps)
      z == LerpStep(v0.z, v1.z, k, steps)
      material == mesh.material
  IN IF ~LineStepVisible(xi, yi, z)
     THEN st
     ELSE
       LET di == yi * Width + xi
           vc == [c \in 1 .. 4 |->
                    IF hasVertexColors(mesh) THEN LerpStep(c0[c], c1[c], k, steps)
                    ELSE One]
           fin == [c \in 1 .. 4 |-> (vc[c] * material.baseColorFactor[c]) \div One]
           r255 == ToByte(OutputTransfer(fin[1], gammaOut))
           g255 == ToByte(OutputTransfer(fin[2], gammaOut))
           b255 == ToByte(OutputTransfer(fin[3], gammaOut))
           a255 == ToByte(clamp(fin[4], 0, One))
           isBlendMode == "alphaMode" \in DOMAIN material
                          /\ material.alphaMode = "BLEND"
           dst == st.buffer[di]
       IN IF isBlendMode /\ a255 < 255
          THEN IF a255 > 0
               THEN LET seen == [st EXCEPT !.frags[di] = Append(@, z)]
                    IN IF LineDepthTestPasses(z, seen.depth[di])
                       THEN [seen EXCEPT
                               !.passed[di] = Min2(@, z),
                               !.buffer = StoreRGBA(@, di,
                                  << LineBlendByte(r255, a255, dst[1], dst[4]),
                                     LineBlendByte(g255, a255, dst[2], dst[4]),
                                     LineBlendByte(b255, a255, dst[3], dst[4]),
                                     LineBlendAlpha(a255, dst[4]) >>),
                               !.wrote = @ \cup {di},
                               !.touched = @ \cup {<<xi, yi>>}]
                       ELSE seen
               ELSE st
          ELSE LET seen == [st EXCEPT !.frags[di] = Append(@, z)]
               IN IF LineDepthTestPasses(z, seen.depth[di])
                  THEN setPixel([seen EXCEPT !.depth = StoreDepth(@, di, z),
                                             !.passed[di] = Min2(@, z),
                                             !.touched = @ \cup {<<xi, yi>>}],
                                xi, yi, <<r255, g255, b255, a255>>)
                  ELSE seen

\* for (let k = 0; k <= steps; k++)
RECURSIVE drawLineSteps(_, _, _, _, _, _, _, _, _)
drawLineSteps(st, mesh, gammaOut, v0, v1, c0, c1, steps, k) ==
  IF k > steps THEN st
  ELSE CHOOSE r \in
         { drawLineSteps(s, mesh, gammaOut, v0, v1, c0, c1, steps, k + 1) :
             s \in {drawLineStep(st, mesh, gammaOut, v0, v1, c0, c1,
                                 steps, k)} } : TRUE

\* the segment whose first index is indices[i]
drawSegment(st, mesh, gammaOut, i) ==
  LET i0 == mesh.indices[i + 1]
      i1 == mesh.indices[i + 2]
      v0 == mesh.verts[i0 + 1]
      v1 == mesh.verts[i1 + 1]
      steps == Max2(Abs(v1.sx - v0.sx), Abs(v1.sy - v0.sy))
  IN IF v0.w = 0 \/ v1.w = 0 THEN st
     ELSE IF (v0.z < 0 /\ v1.z < 0) \/ (v0.z > ZOne /\ v1.z > ZOne) THEN st
     ELSE IF steps = 0 THEN st
     ELSE drawLineSteps(st, mesh, gammaOut, v0, v1,
                        LineVertexColor(mesh, i0), LineVertexColor(mesh, i1),
                        steps, 0)

\* for (let i = 0; i < indices.length; i += 2)
RECURSIVE drawSegments(_, _, _, _)
drawSegments(st, mesh, gammaOut, i) ==
  IF i >= Len(mesh.indices) THEN st
  ELSE CHOOSE r \in
         { drawSegments(s, mesh, gammaOut, i + 2) :
             s \in {drawSegment(st, mesh, gammaOut, i)} } : TRUE

\* drawLines(mesh, camera, gammaOut)
drawLines(st, mesh, gammaOut) ==
  IF "indices" \notin DOMAIN mesh THEN BeginCall(st)
  ELSE drawSegments(BeginCall(st), mesh, gammaOut, 0)

\* ------------------------------------------------------- drawInfiniteGrid
\* The ray cast of pixel (x, y) against the grid plane is a function of the
\* camera alone; its outcome is final_alpha (0 when the pixel is skipped).
\* The camera of the model looks down on the plane in the bottom row.
GridFinalAlpha(x, y) == IF y = Height - 1 THEN 500 ELSE 0

\* The z01 of the point where the ray of pixel (x, y) meets the grid plane,
\* near_point + t * ray_dir projected back: in the bottom row the plane lies
\* two depth steps before the far plane, above it the ray misses the plane.
GridPlaneZ01(x, y) == IF y = Height - 1 THEN ZOne - 2 ELSE Infinity

\* grid_color ?? [0.93, 0.93, 0.93], on a cell line (g2 = 0)
GridColor == <<930, 930, 930>>

\* the body of the pixel loops of drawInfiniteGrid
drawGridPixel(st, gammaOut, x, y) ==
  LET final_alpha == GridFinalAlpha(x, y)
  IN IF final_alpha <= 10 THEN st
     ELSE LET dst == st.buffer[y * Width + x]
              out == [c \in 1 .. 3 |-> OutputTransfer(GridColor[c], gammaOut)]
          IN setPixel(st, x, y,
               << BlendByte(out[1], final_alpha, dst[1]),
                  BlendByte(out[2], final_alpha, dst[2]),
                  BlendByte(out[3], final_alpha, dst[3]),
                  BlendByte(One, final_alpha, dst[4]) >>)

RECURSIVE drawGridPixels(_, _, _)
drawGridPixels(st, gammaOut, n) ==
  IF n >= NPixels THEN st
  ELSE CHOOSE r \in
         { drawGridPixels(s, gammaOut, n + 1) :
             s \in {drawGridPixel(st, gammaOut, n % Width, n \div Width)} } : TRUE

\* drawInfiniteGrid(renderer, params)
drawInfiniteGrid(st, gammaOut) == drawGridPixels(BeginCall(st), gammaOut, 0)

\* ------------------------------------------------------------ draw calls
V(sx, sy, z) == [sx |-> sx, sy |-> sy, z |-> z, w |-> 1]

\* a vertex on the camera plane: clip w = 0, inv_w infinite
VClipped(sx, sy, z) == [sx |-> sx, sy |-> sy, z |-> z, w |-> 0]

\* screen triangles: the whole bitmap, its top-left corner, its right column
TriFull(z) == << V(-1, -1, z), V(-1, 2 * Height + 2, z), V(2 * Width + 2, -1, z) >>
TriLeft(z) == << V(0, 0, z), V(0, 2, z), V(2, 0, z) >>
TriRight(z) == << V(Width - 1, 0, z), V(Width - 1, Height + 1, z),
                  V(Width + Height, 0, z) >>

\* World-space data of a draw call: positions as points <<x, y, z>> with even
\* integer coordinates (so that the centre of a box is an integer point) and
\* the model matrix as a uniform scale s followed by a translation t.
Identity == [s |-> 1, t |-> <<0, 0, 0>>]
Translation(t) == [s |-> 1, t |-> t]
Scaled(k, t) == [s |-> k, t |-> t]

\* vec4.transformMat4(tmp, (x, y, z, 1), model)
TransformMat4(model, p) == [c \in 1 .. 3 |-> model.s * p[c] + model.t[c]]

\* the draw calls a caller passes in
DrawCallCatalogue ==
  << [verts |-> TriLeft(8), lit |-> 1000,
      positions |-> << <<0, 0, 0>>, <<4, 0, 0>>, <<0, 4, 0>> >>,
      model |-> Identity,
      material |-> [baseColorFactor |-> <<1000, 0, 0, 1000>>]],
     [verts |-> TriRight(8), lit |-> 1000,
      positions |-> << <<0, 0, 0>>, <<4, 0, 0>>, <<0, 4, 0>> >>,
      model |-> Translation(<<6, 0, 0>>), mode |-> 4,
      material |-> [baseColorFactor |-> <<0, 1000, 0, 1000>>,
                    alphaMode |-> "OPAQUE"]],
     [verts |-> TriFull(11), lit |-> 500,
      positions |-> << <<-2, -2, -2>>, <<2, -2, 2>>, <<0, 6, 0>> >>,
      model |-> Identity, mode |-> 4, indices |-> <<0, 1, 2>>,
      material |-> [baseColorFactor |-> <<0, 0, 1000, 500>>,
                    alphaMode |-> "OPAQUE"]],
     [verts |-> TriFull(11), lit |-> 1000,
      positions |-> << <<-2, -2, -2>>, <<2, -2, 2>>, <<0, 6, 0>> >>,
      model |-> Scaled(2, <<0, 0, 0>>), mode |-> 4,
      material |-> [baseColorFactor |-> <<1000, 1000, 0, 1000>>,
                    alphaMode |-> "OPAQUE"]],
     [verts |-> TriFull(5), lit |-> 1000,
      positions |-> << <<0, 0, 0>>, <<2, 0, 0>>, <<0, 0, 2>> >>,
      model |-> Scaled(-1, <<0, 2, 0>>), mode |-> 4,
      material |-> [baseColorFactor |-> <<1000, 0, 1000, 300>>,
                    alphaMode |-> "MASK"]],
     [verts |-> TriLeft(6), lit |-> 1000,
      positions |-> << <<0, 0, 4>>, <<4, 0, 4>>, <<0, 4, 4>> >>,
      model |-> Identity, mode |-> 4,
      material |-> [baseColorFactor |-> <<0, 1000, 1000, 700>>,
                    alphaMode |-> "MASK", alphaCutoff |-> 600]],
     [verts |-> TriFull(2), lit |-> 1000,
      positions |-> << <<-4, 0, 8>>, <<4, 0, 8>>, <<0, 10, 8>> >>,
      model |-> Identity, mode |-> 4,
      material |-> [baseColorFactor |-> <<1000, 1000, 1000, 500>>,
                    alphaMode |-> "BLEND"]],
     [verts |-> << V(-1, Height - 1, 9), V(Width, Height - 1, 9) >>,
      indices |-> <<0, 1>>, lit |-> 1000,
      positions |-> << <<-6, 0, 0>>, <<6, 0, 0>> >>,
      model |-> Identity, mode |-> 1,
      material |-> [baseColorFactor |-> <<500, 500, 500, 1000>>,
                    alphaMode |-> "OPAQUE"]],
     [verts |-> << V(0, 0, 3), V(Width - 1, 0, 3) >>,
      indices |-> <<0, 1>>, lit |-> 1000,
      positions |-> << <<0, 2, -4>>, <<0, 2, 4>> >>,
      model |-> Translation(<<0, 0, 2>>), mode |-> 1,
      colors |-> << <<1000, 1000, 1000, 500>>, <<1000, 1000, 1000, 1000>> >>,
      material |-> [baseColorFactor |-> <<1000, 500, 0, 1000>>,
                    alphaMode |-> "BLEND"]],
     [verts |-> << V(-1, -1, 1), V(-1, 2 * Height + 2, 1),
                   V(2 * Width + 2, -1, 14), VClipped(0, 0, 0) >>,
      indices |-> <<0, 1, 2, 0, 1, 3>>, lit |-> 250,
      positions |-> << <<0, 0, 0>>, <<2, 0, 0>>, <<0, 2, 0>>, <<0, 0, 14>> >>,
      model |-> Identity, mode |-> 4,
      material |-> [baseColorFactor |-> <<1000, 1000, 1000, 1000>>,
                    alphaMode |-> "OPAQUE"]],
     [verts |-> TriLeft(8), lit |-> 1000,
      positions |-> << <<0, 0, 0>>, <<4, 0, 0>>, <<0, 4, 0>> >>,
      model |-> Scaled(0, <<2, 0, 2>>), mode |-> 4,
      indices |-> <<0, 1, 2, 0, 1, 7>>,
      material |-> [baseColorFactor |-> <<1000, 0, 0, 1000>>,
                    alphaMode |-> "OPAQUE"]],
     [verts |-> TriRight(8), lit |-> 1000,
      positions |-> << <<0, 0, 0>>, <<4, 0, 0>>, <<0, 4, 0>> >>,
      model |-> Identity, mode |-> 4, indices |-> <<0, 1, 2, 0, 1>>,
      material |-> [baseColorFactor |-> <<0, 1000, 0, 1000>>,
                    alphaMode |-> "OPAQUE"]],
     [verts |-> << V(0, 0, 4), V(Width - 1, Height - 1, 4) >>, lit |-> 1000,
      positions |-> << <<0, 0, 0>>, <<2, 2, 0>> >>,
      model |-> Identity, mode |-> 1,
      material |-> [baseColorFactor |-> <<1000, 1000, 1000, 1000>>]] >>

\* a triangle-mode draw call whose index count is not a multiple of 3 or that
\* holds an index past its vertices (draw calls 11 and 12; the model matrix
\* of draw call 11 collapses it to a point)
InvalidGeometry(dc) ==
  /\ ~("mode" \in DOMAIN dc /\ dc.mode = 1)
  /\ "indices" \in DOMAIN dc
  /\ \/ Len(dc.indices) % 3 # 0
     \/ \E k \in DOMAIN dc.indices : dc.indices[k] >= Len(dc.verts)

\* the well-formed draw calls of the catalogue
DrawCallIds ==
  { k \in 1 .. Len(DrawCallCatalogue) : ~InvalidGeometry(DrawCallCatalogue[k]) }

\* null
Null == <<>>

\* computeWorldAABB(drawCalls): the box of every position of every draw
\* call transformed by its model matrix; (-1,-1,-1)..(1,1,1) when the
\* minimum x is still Infinity
\* the box extended with the maximum taken as a minimum
ExtendAABBMinOnly(box, q) ==
  [min |-> [c \in 1 .. 3 |-> Min2(box.min[c], q[c])],
   max |-> [c \in 1 .. 3 |-> Min2(box.max[c], q[c])]]

\* min[c] = Math.min(min[c], q[c]); max[c] = Math.max(max[c], q[c])
ExtendAABB(box, q) ==
  [min |-> [c \in 1 .. 3 |-> Min2(box.min[c], q[c])],
   max |-> [c \in 1 .. 3 |-> Max2(box.max[c], q[c])]]

RECURSIVE AABBOfPositions(_, _, _)
AABBOfPositions(box, dc, k) ==
  IF k > Len(dc.positions) THEN box
  ELSE AABBOfPositions(
         ExtendAABB(box, TransformMat4(dc.model, dc.positions[k])), dc, k + 1)

RECURSIVE AABBOfDrawCalls(_, _, _)
AABBOfDrawCalls(box, dcs, k) ==
  IF k > Len(dcs) THEN box
  ELSE AABBOfDrawCalls(AABBOfPositions(box, dcs[k], 1), dcs, k + 1)

computeWorldAABB(dcs) ==
  LET box == AABBOfDrawCalls(
               [min |-> <<Infinity, Infinity, Infinity>>,
                max |-> <<-Infinity, -Infinity, -Infinity>>], dcs, 1)
  IN IF box.min[1] >= Infinity
     THEN [min |-> <<-1, -1, -1>>, max |-> <<1, 1, 1>>]
     ELSE box

\* buildCamera(drawCalls, width, height, fovDeg, camPos, lookAt). The
\* matrices are kept as the arguments mat4.perspective and mat4.lookAt are
\* called with: the field of view and aspect ratio, the eye and the centre.
\* Points are doubled; the auto-framed eye is kept as the centre, the squared
\* diagonal of the box and the field of view it is computed from.
buildCamera(dcs, width, height, fovDeg, camPos, lookAt) ==
  LET aabb == computeWorldAABB(dcs)
      mid == [c \in 1 .. 3 |-> aabb.min[c] + aabb.max[c]]
      ext == [c \in 1 .. 3 |-> aabb.max[c] - aabb.min[c]]
      diagSq == ext[1] * ext[1] + ext[2] * ext[2] + ext[3] * ext[3]
      twice(q) == [c \in 1 .. 3 |-> 2 * q[c]]
  IN [proj |-> [fov |-> fovDeg, width |-> width, height |-> height],
      view |-> IF camPos # Null
               THEN [eye |-> [at |-> twice(camPos)],
                     center |-> IF lookAt # Null THEN twice(lookAt) ELSE mid]
               ELSE [eye |-> [around |-> mid, diagSq |-> diagSq, fov |-> fovDeg],
                     center |-> mid]]

\* { ...a, ...b } for objects without keys that hold undefined
Spread(a, b) == [f \in DOMAIN a \cup DOMAIN b |-> IF f \in DOMAIN b THEN b[f] ELSE a[f]]

\* userGridOptions.offset, an object with some of the keys x, y, z
OffsetOf(gridOptions) ==
  IF "offset" \in DOMAIN gridOptions THEN gridOptions.offset ELSE [f \in {} |-> 0]

\* the default size rounded down to an even integer
DefaultGridSizeFloor(maxSize) == 2 * ((6 * maxSize) \div 10)

\* Math.ceil((maxSize * 1.2) / 2) * 2
DefaultGridSize(maxSize) == 2 * ((6 * maxSize + 9) \div 10)

\* finalGridOptions of renderDrawCalls: the size and the offset default to
\* the box of the input draw calls, the grid options of the caller override
\* the size and each component of the offset on its own
finalGridOptions(userGridOptions, dcs) ==
  LET aabb == computeWorldAABB(dcs)
      maxSize == Max2(aabb.max[1] - aabb.min[1], aabb.max[3] - aabb.min[3])
      defaultSize == DefaultGridSize(maxSize)
      defaultGridOptions ==
        [size |-> IF defaultSize > 0 THEN defaultSize ELSE 10,
         offset |-> [x |-> (aabb.min[1] + aabb.max[1]) \div 2,
                     y |-> aabb.min[2],
                     z |-> (aabb.min[3] + aabb.max[3]) \div 2]]
      merged == Spread(defaultGridOptions, userGridOptions)
  IN [merged EXCEPT !.offset = Spread(defaultGridOptions.offset,
                                      OffsetOf(userGridOptions))]

\* createGrid(options): a line draw call on the ground plane, size wide and
\* moved by offset; its material is BLEND with per-vertex alpha when
\* options.infinite, else OPAQUE. The positions are those of the first
\* two lines, which span the whole square; sizes are even here.
createGrid(gridOptions) ==
  LET infinite == "infinite" \in DOMAIN gridOptions /\ gridOptions.infinite
      baseSize == IF "size" \in DOMAIN gridOptions THEN gridOptions.size ELSE 10
      size == IF infinite /\ ("size" \notin DOMAIN gridOptions \/ gridOptions.size = 0)
              THEN (5 * baseSize) \div 2 ELSE baseSize
      half == size \div 2
      offset == Spread([x |-> 0, y |-> 0, z |-> 0], OffsetOf(gridOptions))
      base == [verts |-> << V(0, Height - 1, 7), V(Width - 1, Height - 1, 7),
                            V(0, 0, 12), V(0, Height - 1, 12) >>,
               positions |-> << <<-half, 0, -half>>, <<-half, 0, half>>,
                                <<-half, 0, -half>>, <<half, 0, -half>> >>,
               model |-> Translation(<<offset.x, offset.y, offset.z>>),
               indices |-> <<0, 1, 2, 3>>, lit |-> 1000, mode |-> 1,
               material |-> [baseColorFactor |-> <<500, 500, 500, 1000>>,
                             alphaMode |-> IF infinite THEN "BLEND" ELSE "OPAQUE"]]
  IN IF infinite
     THEN [f \in DOMAIN base \cup {"colors"} |->
             IF f = "colors"
             THEN << <<500, 500, 500, 1000>>, <<500, 500, 500, 0>>,
                     <<500, 500, 500, 1000>>, <<500, 500, 500, 400>> >>
             ELSE base[f]]
     ELSE base

\* ---------------------------------------------------------------- options

DEFAULT_RENDER_OPTIONS ==
  [width |-> 800, height |-> 600, fov |-> 60, cull |-> TRUE, gamma |-> TRUE,
   ambient |-> 150, lightDir |-> <<-400, -900, -200>>, camPos |-> Null,
   lookAt |-> Null, backgroundColor |-> Null, grid |-> [on |-> FALSE]]

\* A JavaScript object is a record of its own keys that hold a value; the own
\* keys that hold undefined are named by the set in the field undefinedKeys
\* (absent when there is none).
UndefinedKeys(obj) ==
  IF "undefinedKeys" \in DOMAIN obj THEN obj.undefinedKeys ELSE {}
DefinedKeys(obj) == DOMAIN obj \ {"undefinedKeys"}
OwnKeys(obj) == DefinedKeys(obj) \cup UndefinedKeys(obj)

\* the object with the keys undef set to undefined
WithUndefined(obj, undef) ==
  LET kept == DefinedKeys(obj) \ undef
  IN IF undef = {} THEN [f \in kept |-> obj[f]]
     ELSE [f \in kept \cup {"undefinedKeys"} |->
             IF f = "undefinedKeys" THEN undef ELSE obj[f]]

\* { ...DEFAULT_RENDER_OPTIONS, ...options }: every own key of options,
\* also one that holds undefined, replaces the default
SpreadOver(defaults, obj) ==
  WithUndefined(
    [f \in DefinedKeys(defaults) \cup DefinedKeys(obj) |->
       IF f \in DefinedKeys(obj) THEN obj[f] ELSE defaults[f]],
    (UndefinedKeys(defaults) \ DefinedKeys(obj)) \cup UndefinedKeys(obj))

\* resolveRenderOptions(options): { ...DEFAULT_RENDER_OPTIONS, ...options,
\* lightDir: options.lightDir != null ? options.lightDir : default,
\* camPos: options.camPos !== undefined ? options.camPos : default,
\* lookAt: options.lookAt !== undefined ? options.lookAt : default }
resolveRenderOptions(optionsInput) ==
  LET spread == SpreadOver(DEFAULT_RENDER_OPTIONS, optionsInput)
      given == DefinedKeys(optionsInput)
      lightDir == IF "lightDir" \in given /\ optionsInput.lightDir # Null
                  THEN optionsInput.lightDir
                  ELSE DEFAULT_RENDER_OPTIONS.lightDir
      camPos == IF "camPos" \in given THEN optionsInput.camPos
                ELSE DEFAULT_RENDER_OPTIONS.camPos
      lookAt == IF "lookAt" \in given THEN optionsInput.lookAt
                ELSE DEFAULT_RENDER_OPTIONS.lookAt
  IN WithUndefined(
       [f \in DefinedKeys(spread) \cup {"lightDir", "camPos", "lookAt"} |->
          CASE f = "lightDir" -> lightDir
            [] f = "camPos" -> camPos
            [] f = "lookAt" -> lookAt
            [] OTHER -> spread[f]],
       UndefinedKeys(spread) \ {"lightDir", "camPos", "lookAt"})

\* the partial options a caller passes; the bitmap size is always given
Choice(name, values) == {[f \in {} |-> 0]} \cup {name :> v : v \in values}
OptionsInputs ==
  { ("width" :> Width) @@ ("height" :> Height) @@ g @@ b @@ r :
      g \in Choice("gamma", {FALSE}),
      b \in Choice("backgroundColor", {<<200, 502, 998>>}),
      r \in Choice("grid", {[on |-> TRUE], [on |-> TRUE, infinite |-> TRUE],
                            [on |-> TRUE, infiniteGrid |-> TRUE]}) }
  \cup { ("width" :> Width) @@ ("height" :> Height) @@ ("cull" :> FALSE) }

\* the draw-call lists a caller passes
RECURSIVE SeqsUpTo(_, _)
SeqsUpTo(S, n) ==
  IF n = 0 THEN {<<>>}
  ELSE LET shorter == SeqsUpTo(S, n - 1)
       IN shorter \cup {Append(q, x) : q \in shorter, x \in S}
DrawCallLists == SeqsUpTo(DrawCallIds, MaxCalls)

\* a clear colour that goes through the sRGB transfer like a fragment
ClearColorEncoded(options) ==
  IF options.backgroundColor # Null
  THEN << RoundByte(srgbEncodeLinear01(options.backgroundColor[1])),
          RoundByte(srgbEncodeLinear01(options.backgroundColor[2])),
          RoundByte(srgbEncodeLinear01(options.backgroundColor[3])), 255 >>
  ELSE <<0, 0, 0, 0>>

\* A string is the sequence of its characters; a colour is three numbers.
\* typeof v === "string", for the values backgroundColor takes here
IsString(v) == Len(v) # 3

\* Number(ch) for a one-character string: a decimal digit, else NaN
DecimalValue ==
  ("0" :> 0) @@ ("1" :> 1) @@ ("2" :> 2) @@ ("3" :> 3) @@ ("4" :> 4) @@
  ("5" :> 5) @@ ("6" :> 6) @@ ("7" :> 7) @@ ("8" :> 8) @@ ("9" :> 9)

\* Math.round(ch * 255) stored into the Uint8ClampedArray: NaN is stored
\* as 0 and a value above 255 as 255
CharByte(ch) ==
  IF ch \in DOMAIN DecimalValue THEN clamp(255 * DecimalValue[ch], 0, 255)
  ELSE 0

\* the colour renderDrawCalls clears to: const [r, g, b] =
\* options.backgroundColor takes the first three elements, of a string its
\* first three characters
ClearColor(options) ==
  IF options.backgroundColor # Null
  THEN IF IsString(options.backgroundColor)
       THEN << CharByte(options.backgroundColor[1]),
               CharByte(options.backgroundColor[2]),
               CharByte(options.backgroundColor[3]), 255 >>
       ELSE << RoundByte(options.backgroundColor[1]),
               RoundByte(options.backgroundColor[2]),
               RoundByte(options.backgroundColor[3]), 255 >>
  ELSE <<0, 0, 0, 0>>

\* Number.parseInt of two hexadecimal digits
HexValue ==
  DecimalValue @@ ("a" :> 10) @@ ("b" :> 11) @@ ("c" :> 12) @@ ("d" :> 13) @@
  ("e" :> 14) @@ ("f" :> 15)
ParseHexPair(hi, lo) == 16 * HexValue[hi] + HexValue[lo]

\* hexToRgb(hex): the three channels over 255, in thousandths, or null
hexToRgb(hex) ==
  LET cleanHex == IF Len(hex) > 0 /\ hex[1] = "#" THEN Tail(hex) ELSE hex
  IN IF Len(cleanHex) # 6 \/ \E k \in 1 .. Len(cleanHex) : cleanHex[k] \notin DOMAIN HexValue
     THEN Null
     ELSE [c \in 1 .. 3 |->
             (2 * One * ParseHexPair(cleanHex[2 * c - 1], cleanHex[2 * c]) + 255)
               \div (2 * 255)]

\* userGridOptions.infiniteGrid
UsesInfiniteGrid(options) ==
  options.grid.on /\ "infiniteGrid" \in DOMAIN options.grid
  /\ options.grid.infiniteGrid

\* const allDrawCalls = [...drawCalls], with the grid pushed last
AllDrawCalls(input, options) ==
  LET given == [k \in 1 .. Len(input) |-> DrawCallCatalogue[input[k]]]
  IN IF options.grid.on /\ ~UsesInfiniteGrid(options)
     THEN Append(given, createGrid(finalGridOptions(options.grid, given)))
     ELSE given

\* allDrawCalls.filter(dc => (dc.material.alphaMode ?? "OPAQUE") === mode),
\* as the positions in allDrawCalls
FilterByAlphaMode(all, mode) ==
  SelectSeq([k \in 1 .. Len(all) |-> k],
            LAMBDA k : AlphaModeOf(all[k].material) = mode)

\* --------------------------------------------------------------- state
VARIABLES phase, drawCalls, optionsInput, options, allDrawCalls, i, renderer,
          dispatched, fragmentPixels, lastOp, result, history, nOps,
          sinceClear, stage, parse, build, load, viewer

vars == << phase, drawCalls, optionsInput, options, allDrawCalls, i, renderer,
           dispatched, fragmentPixels, lastOp, result, history, nOps,
           sinceClear, stage, parse, build, load, viewer >>

\* the state of a render call
frame == << phase, drawCalls, optionsInput, options, allDrawCalls, i, renderer,
            dispatched, fragmentPixels, lastOp, result, history, nOps,
            sinceClear >>

\* the state outside the frame of a render call: where each draw call of
\* the frame stands (followed only when the frame is run stage by stage),
\* and the locals of a parseGLB call, with the ranges of the chunk headers
\* and chunk data read so far and the cursor at the top of each iteration,
\* and the locals of a createSceneFromGLTF call, with the nodes visited,
\* and the locals of a call that loads the buffers of a GLB file, and the
\* props, the state and the loads of a PoppyGlViewer
others == << stage, parse, build, load, viewer >>
\* all of it but stage, and all of the state but parse, but build, but
\* load, but viewer
besideStage == << parse, build, load, viewer >>
besideParse == << frame, stage, build, load, viewer >>
besideBuild == << frame, stage, parse, load, viewer >>
besideLoad == << frame, stage, parse, build, viewer >>
besideViewer == << frame, stage, parse, build, load >>
NoParse == [pc |-> "none"]
NoBuild == [pc |-> "none"]
NoLoad == [pc |-> "none"]
NoViewer == [mounted |-> FALSE]
OthersInit ==
  /\ stage = <<>> /\ parse = NoParse /\ build = NoBuild /\ load = NoLoad
  /\ viewer = NoViewer

\* a renderer kept from the previous call and cleared only when created
ReusedFrame(opts) ==
  IF Len(history) = 0 THEN clear(SoftwareRenderer, ClearColor(opts))
  ELSE renderer

\* the renderer and cleared frame of a renderDrawCalls call
NewFrame(opts) == clear(SoftwareRenderer, ClearColor(opts))

NoOp == [kind |-> "none"]

Init ==
  /\ phase = "idle"
  /\ drawCalls = <<>>
  /\ optionsInput = [f \in {} |-> 0]
  /\ options = DEFAULT_RENDER_OPTIONS
  /\ allDrawCalls = <<>>
  /\ i = 1
  /\ renderer = SoftwareRenderer
  /\ dispatched = <<>>
  /\ fragmentPixels = {}
  /\ lastOp = NoOp
  /\ result = Null
  /\ history = <<>>
  /\ nOps = 0
  /\ sinceClear = "none"
  /\ OthersInit

\* the draws of the pass in progress, as positions in allDrawCalls
opaqueDraws == FilterByAlphaMode(allDrawCalls, "OPAQUE")
maskDraws == FilterByAlphaMode(allDrawCalls, "MASK")
blendDraws == FilterByAlphaMode(allDrawCalls, "BLEND")
\* the passes with the blend pass ahead of the mask pass
GroupOfBlendFirst(ph) ==
  IF ph = "opaque" THEN opaqueDraws
  ELSE IF ph = "mask" THEN blendDraws
  ELSE IF ph = "blend" THEN maskDraws
  ELSE <<>>

GroupOf(ph) ==
  IF ph = "opaque" THEN opaqueDraws
  ELSE IF ph = "mask" THEN maskDraws
  ELSE IF ph = "blend" THEN blendDraws
  ELSE <<>>

\* renderDrawCalls up to the first renderGroup call
renderDrawCallsEntry(input, optsIn) ==
  LET opts == resolveRenderOptions(optsIn)
  IN /\ drawCalls' = input
     /\ optionsInput' = optsIn
     /\ options' = opts
     /\ renderer' = NewFrame(opts)
     /\ allDrawCalls' = AllDrawCalls(input, opts)
     /\ phase' = "opaque"
     /\ i' = 1
     /\ dispatched' = <<>>
     /\ fragmentPixels' = {}
     /\ lastOp' = [kind |-> "clear"]
     /\ result' = Null
     /\ nOps' = nOps + 1
     /\ UNCHANGED <<history, sinceClear>>

RenderBegin ==
  /\ phase = "idle"
  /\ \E input \in DrawCallLists, optsIn \in OptionsInputs :
       renderDrawCallsEntry(input, optsIn)
  /\ UNCHANGED others

\* the body of the loop of renderGroup: lines by drawLines, else drawMesh
IsLines(dc) == "mode" \in DOMAIN dc /\ dc.mode = 1
renderOne(st, dc, opts) ==
  IF IsLines(dc) THEN drawLines(st, dc, opts.gamma)
  ELSE drawMesh(st, dc, dc.material, opts.cull, opts.gamma)

\* one iteration of the loop of renderGroup
dispatchDraw ==
  /\ phase \in {"opaque", "mask", "blend"}
  /\ i <= Len(GroupOf(phase))
  /\ LET k == GroupOf(phase)[i]
         dc == allDrawCalls[k]
         after == renderOne(renderer, dc, options)
     IN /\ renderer' = after
        /\ dispatched' = Append(dispatched, k)
        /\ fragmentPixels' = fragmentPixels \cup after.wrote
        /\ lastOp' = [kind |-> IF IsLines(dc) THEN "drawLines" ELSE "drawMesh",
                      dc |-> dc]
  /\ i' = i + 1
  /\ nOps' = nOps + 1
  /\ UNCHANGED <<phase, drawCalls, optionsInput, options, allDrawCalls, result,
                 history, sinceClear>>

DispatchDraw == dispatchDraw /\ UNCHANGED others

\* the loop of renderGroup ends; after the blend pass the call returns
EndGroup ==
  /\ phase \in {"opaque", "mask", "blend"}
  /\ i > Len(GroupOf(phase))
  /\ phase' = CASE phase = "opaque" -> "mask"
                [] phase = "mask" -> "grid"
                [] phase = "blend" -> "done"
  /\ i' = 1
  /\ result' = IF phase = "blend" THEN renderer.buffer ELSE result
  /\ history' = IF phase = "blend"
                THEN Append(history, <<drawCalls, optionsInput, renderer.buffer>>)
                ELSE history
  /\ lastOp' = NoOp
  /\ UNCHANGED <<drawCalls, optionsInput, options, allDrawCalls, renderer,
                 dispatched, fragmentPixels, nOps, sinceClear>>
  /\ UNCHANGED others

\* if (infiniteGridOptions) drawInfiniteGrid(renderer, ...)
InfiniteGridPass ==
  /\ phase = "grid"
  /\ LET after == IF UsesInfiniteGrid(options)
                  THEN drawInfiniteGrid(renderer, options.gamma)
                  ELSE renderer
     IN /\ renderer' = after
        /\ fragmentPixels' = IF UsesInfiniteGrid(options)
                             THEN fragmentPixels \cup after.wrote
                             ELSE fragmentPixels
        /\ lastOp' = IF UsesInfiniteGrid(options)
                     THEN [kind |-> "drawInfiniteGrid"] ELSE NoOp
  /\ phase' = "blend"
  /\ i' = 1
  /\ UNCHANGED <<drawCalls, optionsInput, options, allDrawCalls, dispatched,
                 result, history, nOps, sinceClear>>
  /\ UNCHANGED others

\* renderGroup(dcs), from its n-th draw call on
RECURSIVE renderGroup(_, _, _, _, _)
renderGroup(st, all, group, opts, n) ==
  IF n > Len(group) THEN st
  ELSE CHOOSE r \in
         { renderGroup(s, all, group, opts, n + 1) :
             s \in {renderOne(st, all[group[n]], opts)} } : TRUE

\* renderDrawCalls(drawCalls, optionsInput) as one call: the final renderer
renderDrawCalls(input, optsIn) ==
  LET opts == resolveRenderOptions(optsIn)
      all == AllDrawCalls(input, opts)
      s1 == renderGroup(NewFrame(opts), all, FilterByAlphaMode(all, "OPAQUE"),
                        opts, 1)
      s2 == renderGroup(s1, all, FilterByAlphaMode(all, "MASK"), opts, 1)
      s3 == IF UsesInfiniteGrid(opts) THEN drawInfiniteGrid(s2, opts.gamma)
            ELSE s2
  IN renderGroup(s3, all, FilterByAlphaMode(all, "BLEND"), opts, 1)

Next == RenderBegin \/ DispatchDraw \/ EndGroup \/ InfiniteGridPass

Spec == Init /\ [][Next]_vars

\* ------------------------------------------- repeated renderDrawCalls calls
\* the scenes and options of a caller that renders several times
RepeatLists == {<<>>, <<3>>, <<7>>, <<3, 7>>, <<9>>, <<1, 2>>}
RepeatOptions ==
  { ("width" :> Width) @@ ("height" :> Height),
    ("width" :> Width) @@ ("height" :> Height)
      @@ ("backgroundColor" :> <<200, 502, 998>>)
      @@ ("grid" :> [on |-> TRUE, infiniteGrid |-> TRUE]) }

RenderAgain ==
  /\ phase \in {"idle", "done"}
  /\ Len(history) < MaxRenders
  /\ \E input \in RepeatLists, optsIn \in RepeatOptions :
       renderDrawCallsEntry(input, optsIn)
  /\ UNCHANGED others

NextRepeat == RenderAgain \/ DispatchDraw \/ EndGroup \/ InfiniteGridPass

SpecRepeat == Init /\ [][NextRepeat]_vars

\* ------------------------------------------ a frame, stage by stage
\* renderDrawCalls is a plain function, and so are drawMesh and drawLines:
\* from the call to the return the only steps are those of the frame. Inside
\* drawMesh and drawLines the loop over the vertices ends before the loop
\* over the triangles or the segments starts.
StageLists == {<<>>, <<1>>, <<8>>, <<13>>, <<7, 3>>, <<9, 5>>, <<13, 2>>, <<6, 13>>}
StageOptions ==
  { ("width" :> Width) @@ ("height" :> Height),
    ("width" :> Width) @@ ("height" :> Height) @@ ("grid" :> [on |-> TRUE]) }

\* the draw call the loop of renderGroup stands at
CurrentDraw == GroupOf(phase)[i]
InGroup == phase \in {"opaque", "mask", "blend"} /\ i <= Len(GroupOf(phase))

\* if (!indices) return, the first statement of drawLines
ReturnsAtOnce(dc) == IsLines(dc) /\ "indices" \notin DOMAIN dc

StageBegin ==
  /\ phase = "idle"
  /\ \E input \in StageLists, optsIn \in StageOptions :
       /\ renderDrawCallsEntry(input, optsIn)
       /\ stage' = [k \in 1 .. Len(AllDrawCalls(input, resolveRenderOptions(optsIn)))
                      |-> "queued"]
  /\ UNCHANGED besideStage

\* drawMesh or drawLines is called and enters its loop over the vertices
TransformVertices ==
  /\ InGroup
  /\ stage[CurrentDraw] = "queued"
  /\ ~ReturnsAtOnce(allDrawCalls[CurrentDraw])
  /\ stage' = [stage EXCEPT ![CurrentDraw] = "transforming"]
  /\ UNCHANGED besideStage
  /\ UNCHANGED <<phase, drawCalls, optionsInput, options, allDrawCalls, i,
                 renderer, dispatched, fragmentPixels, lastOp, result, history,
                 nOps, sinceClear>>

\* the loop over the vertices ends, the loop over the triangles or the
\* segments starts
RasterizeBegin ==
  /\ InGroup
  /\ stage[CurrentDraw] = "transforming"
  /\ stage' = [stage EXCEPT ![CurrentDraw] = "rasterizing"]
  /\ UNCHANGED besideStage
  /\ UNCHANGED <<phase, drawCalls, optionsInput, options, allDrawCalls, i,
                 renderer, dispatched, fragmentPixels, lastOp, result, history,
                 nOps, sinceClear>>

\* drawMesh or drawLines returns to the loop of renderGroup
FinishDraw ==
  /\ InGroup
  /\ stage[CurrentDraw] = "rasterizing"
  /\ dispatchDraw
  /\ stage' = [stage EXCEPT ![CurrentDraw] = "done"]
  /\ UNCHANGED besideStage

\* drawLines returns before it transforms a vertex
ReturnAtOnce ==
  /\ InGroup
  /\ stage[CurrentDraw] = "queued"
  /\ ReturnsAtOnce(allDrawCalls[CurrentDraw])
  /\ dispatchDraw
  /\ stage' = [stage EXCEPT ![CurrentDraw] = "done"]
  /\ UNCHANGED besideStage

NextStages ==
  \/ StageBegin \/ TransformVertices \/ RasterizeBegin \/ FinishDraw
  \/ ReturnAtOnce \/ EndGroup \/ InfiniteGridPass

SpecStages == Init /\ [][NextStages]_vars

\* ------------------------------------------ direct use of SoftwareRenderer
InitAPI ==
  /\ phase = "api"
  /\ drawCalls = <<>>
  /\ optionsInput = [f \in {} |-> 0]
  /\ options = DEFAULT_RENDER_OPTIONS
  /\ allDrawCalls = <<>>
  /\ i = 1
  /\ renderer = SoftwareRenderer
  /\ dispatched = <<>>
  /\ fragmentPixels = {}
  /\ lastOp = NoOp
  /\ result = Null
  /\ history = <<>>
  /\ nOps = 0
  /\ sinceClear = "none"
  /\ OthersInit

ApiFrame == <<phase, drawCalls, optionsInput, options, allDrawCalls, i,
              dispatched, fragmentPixels, result, history>>

\* the draw calls a caller hands to drawMesh and to drawLines
\* three segments drawLines rejects: an endpoint on the camera plane, both
\* endpoints before the near plane, both beyond the far plane
RejectedLinesCall ==
  [verts |-> << V(0, 0, 5), VClipped(Width - 1, 0, 5),
                V(0, 0, -1), V(Width - 1, 0, -3),
                V(0, Height - 1, ZOne + 1), V(Width - 1, Height - 1, ZOne + 5) >>,
   indices |-> <<0, 1, 2, 3, 4, 5>>, lit |-> 1000,
   positions |-> << <<0, 0, 0>>, <<2, 0, 0>>, <<0, 0, 2>>, <<2, 0, 2>>,
                    <<0, 2, 0>>, <<2, 2, 0>> >>,
   model |-> Identity, mode |-> 1,
   material |-> [baseColorFactor |-> <<1000, 1000, 0, 1000>>,
                 alphaMode |-> "OPAQUE"]]

\* a segment that leaves the depth range through the far plane on its way
\* across the top row, and one that enters it through the near plane on its
\* way across the bottom row
CrossingLinesCall ==
  [verts |-> << V(0, 0, ZOne - 3), V(Width - 1, 0, ZOne + 3),
                V(0, Height - 1, -2), V(Width - 1, Height - 1, 6) >>,
   indices |-> <<0, 1, 2, 3>>, lit |-> 1000,
   positions |-> << <<0, 0, 0>>, <<2, 0, 0>>, <<0, 2, 0>>, <<2, 2, 0>> >>,
   model |-> Identity, mode |-> 1,
   material |-> [baseColorFactor |-> <<0, 1000, 1000, 1000>>]]

ApiLineCalls ==
  {DrawCallCatalogue[k] : k \in {k \in DrawCallIds : IsLines(DrawCallCatalogue[k])}}
    \cup {createGrid([on |-> TRUE, infinite |-> TRUE, size |-> 10])}
    \cup {RejectedLinesCall, CrossingLinesCall}
\* a vertex behind the camera: clip w = -z_view is negative, inv_w is finite
\* and negative, and the NDC z, (f + n) / (f - n) + 2fn / ((f - n) d) at the
\* distance d behind the eye, lies beyond the far plane
VBehind(sx, sy, z) == [sx |-> sx, sy |-> sy, z |-> z, w |-> -1]

\* a triangle behind the camera whose projected corners fall on the bitmap
BehindCameraCall ==
  [verts |-> << VBehind(0, 0, ZOne + 1), VBehind(0, 2, ZOne + 1),
                VBehind(2, 0, ZOne + 1) >>,
   lit |-> 1000,
   positions |-> << <<-2, -2, 20>>, <<2, -2, 20>>, <<0, 2, 20>> >>,
   model |-> Identity, mode |-> 4,
   material |-> [baseColorFactor |-> <<1000, 0, 1000, 1000>>]]

ApiMeshCalls ==
  {DrawCallCatalogue[k] : k \in {k \in DrawCallIds : ~IsLines(DrawCallCatalogue[k])}}
    \cup {BehindCameraCall}

\* only OPAQUE/MASK drawMesh calls and opaque drawLines calls since the clear
KeepsPure(dc) == IF AlphaModeOf(dc.material) = "BLEND" THEN "mixed" ELSE sinceClear

ApiClear ==
  /\ phase = "api" /\ nOps < MaxOps
  /\ \E colorRGBA \in {<<0, 0, 0, 255>>, <<0, 0, 0, 0>>} :
       renderer' = clear(BeginCall(renderer), colorRGBA)
  /\ sinceClear' = "pure"
  /\ lastOp' = [kind |-> "clear"]
  /\ nOps' = nOps + 1
  /\ UNCHANGED ApiFrame
  /\ UNCHANGED others

ApiSetPixel ==
  /\ phase = "api" /\ nOps < MaxOps
  /\ \E x \in {-1, 0, Width - 1, Width}, y \in {-1, 0, Height - 1, Height} :
       /\ renderer' = setPixel(BeginCall(renderer), x, y, <<9, 9, 9, 9>>)
       /\ lastOp' = [kind |-> "setPixel", x |-> x, y |-> y]
  /\ sinceClear' = IF sinceClear = "none" THEN "none" ELSE "mixed"
  /\ nOps' = nOps + 1
  /\ UNCHANGED ApiFrame
  /\ UNCHANGED others

ApiDrawMesh ==
  /\ phase = "api" /\ nOps < MaxOps
  /\ \E dc \in ApiMeshCalls, cullBackFaces \in BOOLEAN :
       /\ renderer' = drawMesh(renderer, dc, dc.material, cullBackFaces, TRUE)
       /\ lastOp' = [kind |-> "drawMesh", dc |-> dc]
       /\ sinceClear' = KeepsPure(dc)
  /\ nOps' = nOps + 1
  /\ UNCHANGED ApiFrame
  /\ UNCHANGED others

ApiDrawLines ==
  /\ phase = "api" /\ nOps < MaxOps
  /\ \E dc \in ApiLineCalls, gammaOut \in BOOLEAN :
       /\ renderer' = drawLines(renderer, dc, gammaOut)
       /\ lastOp' = [kind |-> "drawLines", dc |-> dc]
       /\ sinceClear' = KeepsPure(dc)
  /\ nOps' = nOps + 1
  /\ UNCHANGED ApiFrame
  /\ UNCHANGED others

NextAPI == ApiClear \/ ApiSetPixel \/ ApiDrawMesh \/ ApiDrawLines

SpecAPI == InitAPI /\ [][NextAPI]_vars

\* ================================================================ claims
IsMeshStep == lastOp'.kind = "drawMesh"
StepAlphaMode == AlphaModeOf(lastOp'.dc.material)
StepAlpha == lastOp'.dc.material.baseColorFactor[4]

\* C1: within one renderDrawCalls call every OPAQUE (or alphaMode-less) draw
\* call is dispatched before every MASK one and every MASK one before every
\* BLEND one; inside a group the dispatch order is the input order, the
\* appended grid being the last input; at the return each draw call was
\* dispatched.
PassRank(dc) ==
  IF "alphaMode" \notin DOMAIN dc.material THEN 1
  ELSE IF dc.material.alphaMode = "OPAQUE" THEN 1
  ELSE IF dc.material.alphaMode = "MASK" THEN 2
  ELSE 3
C1_PassOrder ==
  /\ \A a, b \in 1 .. Len(dispatched) :
       a < b =>
         LET ra == PassRank(allDrawCalls[dispatched[a]])
             rb == PassRank(allDrawCalls[dispatched[b]])
         IN ra < rb \/ (ra = rb /\ dispatched[a] < dispatched[b])
  /\ phase = "done" =>
       {dispatched[a] : a \in 1 .. Len(dispatched)} = 1 .. Len(allDrawCalls)
C1_Witness ==
  /\ phase = "done"
  /\ Len(allDrawCalls) = Len(drawCalls) + 1
  /\ {PassRank(allDrawCalls[k]) : k \in 1 .. Len(allDrawCalls)} = {1, 2, 3}
  /\ \E a \in 1 .. (Len(dispatched) - 1) : dispatched[a] > dispatched[a + 1]

\* C2: a drawMesh call of a BLEND material leaves the depth buffer as it was.
C2_BlendKeepsDepth ==
  [][(IsMeshStep /\ StepAlphaMode = "BLEND") => renderer'.depth = renderer.depth]_vars

\* C3: a MASK fragment whose alpha is below the cutoff changes neither the
\* RGBA bytes nor the depth of its pixel.
C3_MaskDiscardSkips ==
  [][(IsMeshStep /\ StepAlphaMode = "MASK"
        /\ StepAlpha < AlphaCutoffOf(lastOp'.dc.material))
      => (renderer'.buffer = renderer.buffer /\ renderer'.depth = renderer.depth)]_vars

\* C4: a MASK fragment whose alpha is at or above the cutoff writes depth and
\* an alpha byte of 255.
C4_MaskWritesOpaqueAlpha ==
  [][(IsMeshStep /\ StepAlphaMode = "MASK"
        /\ StepAlpha >= AlphaCutoffOf(lastOp'.dc.material))
      => \A p \in renderer'.wrote :
           renderer'.buffer[p][4] = 255 /\ renderer'.depth[p] # Infinity]_vars

\* C5 as stated: after a clear and OPAQUE/MASK drawMesh calls and opaque
\* drawLines calls, depth[p] equals the least z01 that passed the depth test
\* at p (Infinity if none); depth[p] never increases between two clears.
C5_DepthIsMinPassed ==
  [][/\ sinceClear' = "pure" =>
          \A p \in PixelIdx : renderer'.depth[p] = renderer'.passed[p]
     /\ lastOp'.kind # "clear" =>
          \A p \in PixelIdx : renderer'.depth[p] <= renderer.depth[p]]_vars

\* C5 amended: depth[p] equals the float32 rounding of the least z01 that
\* passed the depth test at p (Infinity if none) and never increases between
\* two clears.
C5_DepthIsRoundedMinPassed ==
  [][/\ sinceClear' = "pure" =>
          \A p \in PixelIdx : renderer'.depth[p] = Fround(renderer'.passed[p])
     /\ lastOp'.kind # "clear" =>
          \A p \in PixelIdx : renderer'.depth[p] <= renderer.depth[p]]_vars
C5_Witness ==
  /\ sinceClear = "pure"
  /\ lastOp.kind \in {"drawMesh", "drawLines"}
  /\ \E p \in PixelIdx :
       /\ renderer.frags[p] # <<>>
       /\ renderer.passed[p] < renderer.frags[p][1]
  /\ \E p \in PixelIdx :
       /\ renderer.frags[p] # <<>>
       /\ renderer.passed[p] = renderer.frags[p][1]
       /\ renderer.depth[p] # renderer.passed[p]

\* C6: an opaque/mask fragment whose z01 equals the z01 of the fragment drawn
\* before it at the same pixel changes neither the colour nor the depth there.
C6_FirstWinsTies ==
  [][\A p \in PixelIdx :
       (IsMeshStep /\ StepAlphaMode # "BLEND"
          /\ renderer'.frags[p] = <<renderer.passed[p]>>)
       => (renderer'.buffer[p] = renderer.buffer[p]
           /\ renderer'.depth[p] = renderer.depth[p])]_vars

\* C7: swapping two adjacent OPAQUE draw calls whose rasterized pixel sets
\* are disjoint gives the same final RGBA bytes and the same depth buffer.
SwapAt(q, j) ==
  [k \in 1 .. Len(q) |->
     IF k = j THEN q[j + 1] ELSE IF k = j + 1 THEN q[j] ELSE q[k]]
RasterizedPixels(dc, opts) == renderOne(NewFrame(opts), dc, opts).touched
DisjointOpaquePair(j) ==
  LET A == DrawCallCatalogue[drawCalls[j]]
      B == DrawCallCatalogue[drawCalls[j + 1]]
  IN /\ PassRank(A) = 1 /\ PassRank(B) = 1
     /\ RasterizedPixels(A, options) \cap RasterizedPixels(B, options) = {}
C7_DisjointOpaqueSwap ==
  phase = "done" =>
    \A j \in 1 .. (Len(drawCalls) - 1) :
      DisjointOpaquePair(j) =>
        LET other == renderDrawCalls(SwapAt(drawCalls, j), optionsInput)
        IN other.buffer = result /\ other.depth = renderer.depth
C7_Witness ==
  /\ phase = "done"
  /\ \E j \in 1 .. (Len(drawCalls) - 1) :
       /\ DisjointOpaquePair(j)
       /\ drawCalls[j] # drawCalls[j + 1]
       /\ RasterizedPixels(DrawCallCatalogue[drawCalls[j]], options) # {}
       /\ RasterizedPixels(DrawCallCatalogue[drawCalls[j + 1]], options) # {}

\* C8: two renderDrawCalls calls with the same draw calls and options return
\* byte-identical bitmaps, whatever was rendered in between.
C8_Deterministic ==
  \A a, b \in 1 .. Len(history) :
    (history[a][1] = history[b][1] /\ history[a][2] = history[b][2])
      => history[a][3] = history[b][3]
C8_Witness ==
  /\ Len(history) >= 3
  /\ history[1][1] = history[3][1] /\ history[1][2] = history[3][2]
  /\ history[2][3] # history[1][3]
  /\ history[1][1] # <<>>

\* C9: every colour or depth store of setPixel, drawMesh and drawLines is at
\* a pixel (x, y) with 0 <= x < width and 0 <= y < height, and setPixel with
\* coordinates outside that range changes nothing.
C9_WritesInBounds ==
  [][/\ \A t \in renderer'.touched :
          t[1] \in 0 .. (Width - 1) /\ t[2] \in 0 .. (Height - 1)
     /\ (lastOp'.kind = "setPixel"
          /\ ~(lastOp'.x \in 0 .. (Width - 1) /\ lastOp'.y \in 0 .. (Height - 1)))
        => (renderer'.buffer = renderer.buffer
            /\ renderer'.depth = renderer.depth)]_vars
C9_Witness ==
  \/ /\ lastOp.kind = "setPixel" /\ lastOp.x = Width /\ lastOp.y = 0
     /\ sinceClear = "mixed"
  \/ /\ lastOp.kind = "drawMesh" /\ renderer.touched # {}
     /\ \E v \in {lastOp.dc.verts[n] : n \in DOMAIN lastOp.dc.verts} :
          v.sx >= Width \/ v.sy >= Height \/ v.sx < 0 \/ v.sy < 0

\* C10: when renderDrawCalls returns, every pixel no fragment wrote holds the
\* clear colour: (0,0,0,0) without a backgroundColor, else the background
\* times 255, rounded, with alpha 255 and no gamma; an empty draw-call list
\* with the grid off gives the clear colour at every pixel.
ExpectedClear ==
  IF "backgroundColor" \in DOMAIN optionsInput
  THEN [c \in 1 .. 4 |->
          IF c = 4 THEN 255
          ELSE (2 * 255 * optionsInput.backgroundColor[c] + 1000) \div 2000]
  ELSE <<0, 0, 0, 0>>
C10_UntouchedIsClear ==
  phase = "done" =>
    /\ \A p \in PixelIdx \ fragmentPixels : result[p] = ExpectedClear
    /\ (drawCalls = <<>> /\ "grid" \notin DOMAIN optionsInput)
         => \A p \in PixelIdx : result[p] = ExpectedClear
C10_Witness ==
  /\ phase = "done"
  /\ "backgroundColor" \in DOMAIN optionsInput
  /\ optionsInput.backgroundColor = <<200, 502, 998>>
  /\ fragmentPixels # {}
  /\ PixelIdx \ fragmentPixels # {}


\* ================================================ resolveRenderOptions alone
\* a key of a partial options object: absent, holding undefined, or a value
KeyChoice(name, values) ==
  {[f \in {} |-> 0], [undefinedKeys |-> {name}]} \cup {name :> v : v \in values}

\* the union of two objects with distinct keys
MergeKeys(a, b) ==
  WithUndefined(
    [f \in DefinedKeys(a) \cup DefinedKeys(b) |->
       IF f \in DefinedKeys(a) THEN a[f] ELSE b[f]],
    UndefinedKeys(a) \cup UndefinedKeys(b))

\* the RenderOptionsInput values a caller passes to resolveRenderOptions
PartialOptions ==
  { MergeKeys(w, MergeKeys(h, MergeKeys(v, MergeKeys(c, MergeKeys(g,
      MergeKeys(a, MergeKeys(l, MergeKeys(cp, la)))))))) :
      w \in KeyChoice("width", {Width}),
      h \in KeyChoice("height", {Height}),
      v \in KeyChoice("fov", {45}),
      c \in KeyChoice("cull", {FALSE}),
      g \in KeyChoice("gamma", {FALSE}),
      a \in KeyChoice("ambient", {400}),
      l \in KeyChoice("lightDir", {<<0, 0, 1000>>}),
      cp \in KeyChoice("camPos", {<<0, 0, 5>>}),
      la \in Choice("lookAt", {Null}) }

InitOptions ==
  /\ phase = "options"
  /\ optionsInput \in PartialOptions
  /\ drawCalls = <<>>
  /\ options = DEFAULT_RENDER_OPTIONS
  /\ allDrawCalls = <<>>
  /\ i = 1
  /\ renderer = SoftwareRenderer
  /\ dispatched = <<>>
  /\ fragmentPixels = {}
  /\ lastOp = NoOp
  /\ result = Null
  /\ history = <<>>
  /\ nOps = 0
  /\ sinceClear = "none"
  /\ OthersInit

\* const options = resolveRenderOptions(optionsInput)
ResolveOptions ==
  /\ phase = "options"
  /\ phase' = "resolved"
  /\ options' = resolveRenderOptions(optionsInput)
  /\ lastOp' = [kind |-> "resolveRenderOptions"]
  /\ UNCHANGED <<drawCalls, optionsInput, allDrawCalls, i, renderer, dispatched,
                 fragmentPixels, result, history, nOps, sinceClear>>
  /\ UNCHANGED others

NextOptions == ResolveOptions

SpecOptions == InitOptions /\ [][NextOptions]_vars


\* the fields of RenderOptions that are not optional
RequiredOptions ==
  {"width", "height", "fov", "cull", "gamma", "ambient", "lightDir"}

\* C12: resolveRenderOptions returns a fully populated RenderOptions: each of
\* width, height, fov, cull, gamma, ambient and lightDir is defined and
\* equals the caller's value when the caller supplied one and the default
\* otherwise; a key passed with the value undefined counts as not supplied.
C12_FullyPopulated ==
  phase = "resolved" =>
    \A f \in RequiredOptions :
      /\ f \in DefinedKeys(options)
      /\ options[f] = IF f \in DefinedKeys(optionsInput) THEN optionsInput[f]
                      ELSE DEFAULT_RENDER_OPTIONS[f]


\* ==================================================== computeWorldAABB alone
\* a draw call without any position
EmptyMesh ==
  [verts |-> <<>>, positions |-> <<>>, model |-> Identity, lit |-> 1000,
   material |-> [baseColorFactor |-> <<1000, 1000, 1000, 1000>>]]

\* the draw-call sets handed to computeWorldAABB
AABBInputs ==
  { [k \in 1 .. Len(ids) |-> DrawCallCatalogue[ids[k]]] : ids \in DrawCallLists }
    \cup { <<EmptyMesh>>, <<EmptyMesh, EmptyMesh>> }

InitAABB ==
  /\ phase = "geometry"
  /\ allDrawCalls \in AABBInputs
  /\ drawCalls = <<>>
  /\ optionsInput = [f \in {} |-> 0]
  /\ options = DEFAULT_RENDER_OPTIONS
  /\ i = 1
  /\ renderer = SoftwareRenderer
  /\ dispatched = <<>>
  /\ fragmentPixels = {}
  /\ lastOp = NoOp
  /\ result = Null
  /\ history = <<>>
  /\ nOps = 0
  /\ sinceClear = "none"
  /\ OthersInit

\* const aabb = computeWorldAABB(drawCalls)
ComputeAABB ==
  /\ phase = "geometry"
  /\ phase' = "aabb"
  /\ result' = computeWorldAABB(allDrawCalls)
  /\ lastOp' = [kind |-> "computeWorldAABB"]
  /\ UNCHANGED <<drawCalls, optionsInput, options, allDrawCalls, i, renderer,
                 dispatched, fragmentPixels, history, nOps, sinceClear>>
  /\ UNCHANGED others

NextAABB == ComputeAABB

SpecAABB == InitAABB /\ [][NextAABB]_vars

\* the positions of the set, each transformed by its draw call's model matrix
WorldPositions(dcs) ==
  UNION { { TransformMat4(dcs[k].model, dcs[k].positions[j]) :
              j \in 1 .. Len(dcs[k].positions) } : k \in 1 .. Len(dcs) }

\* C19: computeWorldAABB returns a box with min <= max on each axis that
\* contains every position transformed by its draw call's model matrix; when
\* the set contributes no position the box is (-1,-1,-1)..(1,1,1).
C19_AABBContains ==
  phase = "aabb" =>
    /\ \A c \in 1 .. 3 : result.min[c] <= result.max[c]
    /\ \A q \in WorldPositions(allDrawCalls) : \A c \in 1 .. 3 :
         result.min[c] <= q[c] /\ q[c] <= result.max[c]
    /\ WorldPositions(allDrawCalls) = {} =>
         result = [min |-> <<-1, -1, -1>>, max |-> <<1, 1, 1>>]

\* a box of a set with a mirrored draw call and a translated one
C19_Witness ==
  /\ phase = "aabb"
  /\ Len(allDrawCalls) = 2
  /\ allDrawCalls[1].model.s < 0
  /\ allDrawCalls[2].model.t # <<0, 0, 0>>
  /\ result.min[1] < 0
  /\ result.max[1] > 0


\* ================================================ computeSmoothNormals alone
Sub3(a, b) == <<a[1] - b[1], a[2] - b[2], a[3] - b[3]>>
Add3(a, b) == <<a[1] + b[1], a[2] + b[2], a[3] + b[3]>>
Dot3(a, b) == a[1] * b[1] + a[2] * b[2] + a[3] * b[3]

\* the un-normalized face normal cross(p1 - p0, p2 - p0)
Cross3(v10, v20) ==
  << v10[2] * v20[3] - v10[3] * v20[2],
     v10[3] * v20[1] - v10[1] * v20[3],
     v10[1] * v20[2] - v10[2] * v20[1] >>

\* indices ?? [0, 1, ..., vertexCount - 1]
NormalIndexArray(mesh) ==
  IF "indices" \in DOMAIN mesh THEN mesh.indices
  ELSE [k \in 1 .. Len(mesh.positions) |-> k - 1]

\* the first loop: the face normal of the triangle at idx[at] is added to the
\* accumulator of each of its three vertices, one after the other
RECURSIVE AccumulateFaceNormals(_, _, _, _)
AccumulateFaceNormals(normals, positions, idx, at) ==
  IF at >= Len(idx) THEN normals
  ELSE
    LET i0 == idx[at + 1]
        i1 == idx[at + 2]
        i2 == idx[at + 3]
        p0 == positions[i0 + 1]
        n == Cross3(Sub3(positions[i1 + 1], p0), Sub3(positions[i2 + 1], p0))
        s0 == [normals EXCEPT ![i0] = Add3(@, n)]
        s1 == [s0 EXCEPT ![i1] = Add3(@, n)]
        s2 == [s1 EXCEPT ![i2] = Add3(@, n)]
    IN AccumulateFaceNormals(s2, positions, idx, at + 3)

\* a normal scaled by the inverse of the sum of the absolute components
NormalizeBySum(acc) ==
  LET sum == Abs(acc[1]) + Abs(acc[2]) + Abs(acc[3])
  IN [v |-> acc, lenSq |-> IF sum = 0 THEN 1 ELSE sum * sum]

\* the second loop: n * (1 / (Math.hypot(nx, ny, nz) || 1)). The result is
\* kept exactly, as the vector v and the square of the length it is divided
\* by: the normal is v / sqrt(lenSq).
Normalize(acc) ==
  [v |-> acc, lenSq |-> IF Dot3(acc, acc) = 0 THEN 1 ELSE Dot3(acc, acc)]

\* computeSmoothNormals(positions, indices): one normal per vertex 0 .. n-1
computeSmoothNormals(mesh) ==
  LET vertexCount == Len(mesh.positions)
      zero == [k \in 0 .. (vertexCount - 1) |-> <<0, 0, 0>>]
      sums == AccumulateFaceNormals(zero, mesh.positions,
                                    NormalIndexArray(mesh), 0)
  IN [k \in 0 .. (vertexCount - 1) |-> Normalize(sums[k])]

\* the meshes handed to computeSmoothNormals: two vertex sets and every
\* index list of up to MaxTris triangles among the chosen ones, which hold
\* a triangle in both orientations and degenerate triangles
MaxTris == 2

NormalPositions ==
  { << <<0, 0, 0>>, <<2, 0, 0>>, <<0, 2, 0>>, <<0, 0, 2>>, <<2, 0, 0>> >>,
    << <<1, 0, 0>>, <<3, 1, 0>>, <<0, 2, 1>>, <<1, 1, 4>>, <<5, 2, 0>> >> }

TriangleChoices ==
  { <<0, 1, 2>>, <<0, 2, 1>>, <<0, 1, 3>>, <<1, 2, 3>>, <<0, 1, 4>>, <<0, 0, 1>> }

RECURSIVE TriangleLists(_)
TriangleLists(n) ==
  IF n = 0 THEN {<<>>}
  ELSE LET shorter == TriangleLists(n - 1)
       IN shorter \cup {q \o t : q \in shorter, t \in TriangleChoices}

NormalMeshes ==
  { [positions |-> ps, indices |-> ix] :
      ps \in NormalPositions, ix \in TriangleLists(MaxTris) }
    \cup { [positions |-> SubSeq(ps, 1, 3)] : ps \in NormalPositions }

InitNormals ==
  /\ phase = "mesh"
  /\ allDrawCalls \in { <<m>> : m \in NormalMeshes }
  /\ drawCalls = <<>>
  /\ optionsInput = [f \in {} |-> 0]
  /\ options = DEFAULT_RENDER_OPTIONS
  /\ i = 1
  /\ renderer = SoftwareRenderer
  /\ dispatched = <<>>
  /\ fragmentPixels = {}
  /\ lastOp = NoOp
  /\ result = Null
  /\ history = <<>>
  /\ nOps = 0
  /\ sinceClear = "none"
  /\ OthersInit

\* useNormals = computeSmoothNormals(positions, idx)
ComputeNormals ==
  /\ phase = "mesh"
  /\ phase' = "normals"
  /\ result' = computeSmoothNormals(allDrawCalls[1])
  /\ lastOp' = [kind |-> "computeSmoothNormals"]
  /\ UNCHANGED <<drawCalls, optionsInput, options, allDrawCalls, i, renderer,
                 dispatched, fragmentPixels, history, nOps, sinceClear>>
  /\ UNCHANGED others

NextNormals == ComputeNormals

SpecNormals == InitNormals /\ [][NextNormals]_vars


\* the mesh computeSmoothNormals was called with, its triangles (as offsets
\* into the index array) and the face normal of a triangle
NormalsMesh == allDrawCalls[1]
TriangleOffsets(mesh) ==
  { t \in 0 .. (Len(NormalIndexArray(mesh)) - 1) : t % 3 = 0 }
Corners(mesh, t) ==
  LET idx == NormalIndexArray(mesh) IN <<idx[t + 1], idx[t + 2], idx[t + 3]>>
FaceNormal(mesh, t) ==
  LET c == Corners(mesh, t)
      p0 == mesh.positions[c[1] + 1]
  IN Cross3(Sub3(mesh.positions[c[2] + 1], p0), Sub3(mesh.positions[c[3] + 1], p0))
NonDegenerate(mesh, t) == FaceNormal(mesh, t) # <<0, 0, 0>>
IsCorner(mesh, t, v) == \E c \in 1 .. 3 : Corners(mesh, t)[c] = v

\* the sum of the face normals of the non-degenerate triangles at vertex v
RECURSIVE FaceNormalSum(_, _, _)
FaceNormalSum(mesh, v, t) ==
  IF t >= Len(NormalIndexArray(mesh)) THEN <<0, 0, 0>>
  ELSE Add3(IF IsCorner(mesh, t, v) THEN FaceNormal(mesh, t) ELSE <<0, 0, 0>>,
            FaceNormalSum(mesh, v, t + 3))

\* the normal v / sqrt(lenSq) has length 1
IsUnit(nrm) == Dot3(nrm.v, nrm.v) = nrm.lenSq

\* C20: computeSmoothNormals returns a unit-length normal for every vertex
\* that is a corner of at least one non-degenerate triangle, also for a
\* vertex shared by triangles of differing orientations.
C20_UnitNormals ==
  phase = "normals" =>
    \A v \in DOMAIN result :
      (\E t \in TriangleOffsets(NormalsMesh) :
          NonDegenerate(NormalsMesh, t) /\ IsCorner(NormalsMesh, t, v))
        => IsUnit(result[v])

\* C20 (amended): the normal is unit-length for every vertex whose face
\* normals do not sum to the zero vector, and the zero vector for a vertex
\* whose face normals cancel or that no non-degenerate triangle touches.
C20_UnitUnlessCancelled ==
  phase = "normals" =>
    \A v \in DOMAIN result :
      IF FaceNormalSum(NormalsMesh, v, 0) # <<0, 0, 0>>
      THEN IsUnit(result[v])
      ELSE result[v].v = <<0, 0, 0>>

\* a vertex shared by two non-degenerate triangles with different face
\* normals, whose sum is not along an axis, got a unit normal
C20_Witness ==
  /\ phase = "normals"
  /\ \E v \in DOMAIN result :
       /\ \E t, u \in TriangleOffsets(NormalsMesh) :
            /\ IsCorner(NormalsMesh, t, v) /\ IsCorner(NormalsMesh, u, v)
            /\ NonDegenerate(NormalsMesh, t) /\ NonDegenerate(NormalsMesh, u)
            /\ FaceNormal(NormalsMesh, t) # FaceNormal(NormalsMesh, u)
       /\ result[v].v[1] # 0 /\ result[v].v[2] # 0
       /\ IsUnit(result[v])


\* ============================================== renderDrawCalls as one call
\* createUint8Bitmap(width, height): new Uint8ClampedArray(width * height * 4)
\* throws a RangeError for a negative length
createUint8Bitmap(width, height) ==
  IF width * height * 4 < 0 THEN [threw |-> "RangeError"]
  ELSE [width |-> width, height |-> height, length |-> width * height * 4]

\* the array buildCamera is called with is the grid-extended one
CameraDrawCallsWithGrid(given, all) == all

\* buildCamera(drawCalls, ...): the array of the caller, not allDrawCalls
CameraDrawCalls(given, all) == given

\* the grid is pushed onto the array of the caller itself
SameArray(arr) == [array |-> "drawCalls", items |-> arr]

\* const allDrawCalls = [...drawCalls]: a new array with the same elements
SpreadCopy(arr) == [array |-> "allDrawCalls", items |-> arr]

\* the array of the caller after the call: allDrawCalls.push(createGrid(...))
\* changes it only if allDrawCalls is that very array
CallerDrawCallsAfter(given, opts) ==
  IF SpreadCopy(given).array = "drawCalls"
     /\ opts.grid.on /\ ~UsesInfiniteGrid(opts)
  THEN Append(given, createGrid(finalGridOptions(opts.grid, given)))
  ELSE given

\* what renderDrawCalls(drawCalls, optionsInput) returns or throws. With a
\* width or height that is not positive every pixel loop is empty and every
\* guard of setPixel and drawLines fails, so the data is the cleared one.
renderDrawCallsResult(input, optsIn) ==
  LET opts == resolveRenderOptions(optsIn)
      all == AllDrawCalls(input, opts)
      given == [k \in 1 .. Len(input) |-> DrawCallCatalogue[input[k]]]
      camera == buildCamera(CameraDrawCalls(given, all), opts.width, opts.height,
                            opts.fov, opts.camPos, opts.lookAt)
      bitmap == createUint8Bitmap(opts.width, opts.height)
  IN IF "threw" \in DOMAIN bitmap THEN bitmap
     ELSE [bitmap |->
             [width |-> opts.width, height |-> opts.height,
              data |-> IF opts.width = Width /\ opts.height = Height
                       THEN renderDrawCalls(input, optsIn).buffer
                       ELSE [p \in 0 .. (opts.width * opts.height - 1) |->
                               ClearColor(opts)]],
           camera |-> camera,
           options |-> opts]

\* the scenes of the caller: well-formed ones and two with invalid geometry
CallLists == {<<>>, <<1>>, <<3, 7>>, <<5, 2>>, <<11>>, <<1, 12>>}

\* the options of the caller at the size of the bitmap
CallOptions ==
  { ("width" :> Width) @@ ("height" :> Height) @@ b @@ r @@ cp :
      b \in Choice("backgroundColor",
                   {<<200, 502, 998>>, <<"#", "0", "0", "f", "f", "0", "0">>}),
      r \in Choice("grid", {[on |-> TRUE], [on |-> TRUE, infinite |-> TRUE],
                            [on |-> TRUE, infiniteGrid |-> TRUE]}),
      cp \in Choice("camPos", {<<0, 2, 9>>}) }
    \cup { ("width" :> Width) @@ ("height" :> Height) @@ ("grid" :> r) :
             r \in {[on |-> TRUE, size |-> 8],
                    [on |-> TRUE, offset |-> [y |-> 2]],
                    [on |-> TRUE, size |-> 6, offset |-> [x |-> 4, z |-> -2]]} }

\* options with a width or a height that is not positive
BadSizeOptions ==
  { ("width" :> w) @@ ("height" :> h) :
      w \in {-1, 0, Width}, h \in {-1, 0, Height} } \ CallOptions

InitCall ==
  /\ phase = "caller"
  /\ drawCalls = <<>>
  /\ optionsInput = [f \in {} |-> 0]
  /\ options = DEFAULT_RENDER_OPTIONS
  /\ allDrawCalls = <<>>
  /\ i = 1
  /\ renderer = SoftwareRenderer
  /\ dispatched = <<>>
  /\ fragmentPixels = {}
  /\ lastOp = NoOp
  /\ result = Null
  /\ history = <<>>
  /\ nOps = 0
  /\ sinceClear = "none"
  /\ OthersInit

\* const { bitmap, camera, options } = renderDrawCalls(drawCalls, optionsInput)
Call ==
  /\ phase = "caller"
  /\ \E input \in CallLists, optsIn \in CallOptions \cup BadSizeOptions :
       LET opts == resolveRenderOptions(optsIn)
           given == [k \in 1 .. Len(input) |-> DrawCallCatalogue[input[k]]]
       IN /\ optsIn \in BadSizeOptions => input = <<>>
          /\ lastOp' = [kind |-> "renderDrawCalls", drawCalls |-> given,
                        optionsInput |-> optsIn]
          /\ drawCalls' = CallerDrawCallsAfter(given, opts)
          /\ optionsInput' = optsIn
          /\ options' = opts
          /\ allDrawCalls' = AllDrawCalls(input, opts)
          /\ result' = renderDrawCallsResult(input, optsIn)
  /\ UNCHANGED <<phase, i, renderer, dispatched, fragmentPixels, history, nOps,
                 sinceClear>>
  /\ UNCHANGED others

NextCall == Call

SpecCall == InitCall /\ [][NextCall]_vars

\* ------------------------------------------------ claims on a whole call
\* the two option objects have the same keys and values apart from grid
SameButGrid(a, b) ==
  /\ DOMAIN a \ {"grid"} = DOMAIN b \ {"grid"}
  /\ \A f \in DOMAIN a \ {"grid"} : a[f] = b[f]

\* the state is the one a call of renderDrawCalls has returned to
Returned == lastOp.kind = "renderDrawCalls" /\ "camera" \in DOMAIN result

\* C11: two calls of renderDrawCalls with the same draw calls and with
\* options that differ in the grid field only return the same camera (the
\* same arguments of mat4.perspective and mat4.lookAt): the grid draw call
\* takes no part in the framing.
C11_CameraIgnoresGrid ==
  [][ (/\ Returned
       /\ Returned'
       /\ lastOp'.drawCalls = lastOp.drawCalls
       /\ SameButGrid(lastOp.optionsInput, lastOp'.optionsInput))
      => result'.camera = result.camera ]_vars

\* a call that framed the camera itself and appended a grid that reaches
\* outside the box of the input draw calls
C11_Witness ==
  /\ Returned
  /\ options.camPos = Null
  /\ Len(lastOp.drawCalls) > 0
  /\ Len(allDrawCalls) = Len(lastOp.drawCalls) + 1
  /\ computeWorldAABB(allDrawCalls) # computeWorldAABB(lastOp.drawCalls)
  /\ result.camera = buildCamera(lastOp.drawCalls, options.width,
                                 options.height, options.fov, Null,
                                 options.lookAt)

C13_NonPositiveSizeFails ==
  (lastOp.kind = "renderDrawCalls" /\ (options.width <= 0 \/ options.height <= 0))
    => "threw" \in DOMAIN result

\* C14: when one of the draw calls handed to renderDrawCalls is a triangle
\* draw call whose index count is not a multiple of 3 or that holds an index
\* that is not below the vertex count, the call reports an error and
\* returns no bitmap.
C14_InvalidGeometryReported ==
  (/\ lastOp.kind = "renderDrawCalls"
   /\ \E k \in DOMAIN lastOp.drawCalls : InvalidGeometry(lastOp.drawCalls[k]))
    => "bitmap" \notin DOMAIN result

\* the pixels a draw call of the scene, or the infinite grid, can write
CoveredPixels ==
  UNION { renderOne(NewFrame(options), allDrawCalls[k], options).wrote :
            k \in DOMAIN allDrawCalls }
    \cup (IF UsesInfiniteGrid(options)
          THEN drawInfiniteGrid(NewFrame(options), options.gamma).wrote
          ELSE {})

\* (0xrr, 0xgg, 0xbb, 255) of "#rrggbb"
HexBytes(hex) ==
  << ParseHexPair(hex[2], hex[3]), ParseHexPair(hex[4], hex[5]),
     ParseHexPair(hex[6], hex[7]), 255 >>

\* the call was made with the colour triple or string bg as backgroundColor
\* and has returned a bitmap of the size of the model
ReturnedWithBackground ==
  /\ Returned
  /\ options.backgroundColor # Null
  /\ options.width = Width /\ options.height = Height

\* C16: when renderDrawCalls was called with a backgroundColor that is a hex
\* string "#rrggbb", every pixel of the returned bitmap that no geometry
\* covers is (0xrr, 0xgg, 0xbb, 255).
C16_HexBackground ==
  (/\ ReturnedWithBackground
   /\ IsString(options.backgroundColor)
   /\ hexToRgb(options.backgroundColor) # Null)
    => \A p \in PixelIdx \ CoveredPixels :
         result.bitmap.data[p] = HexBytes(options.backgroundColor)

\* --------------------------------------------- claims on a drawMesh call
\* every vertex of the draw call has a clip-space w that is not positive
AllBehindCamera(dc) == \A k \in DOMAIN dc.verts : dc.verts[k].w <= 0

\* C15: a drawMesh call all of whose triangles have three vertices with
\* clip-space w <= 0 stores no colour and no depth value.
C15_BehindCameraDrawsNothing ==
  (lastOp.kind = "drawMesh" /\ AllBehindCamera(lastOp.dc))
    => renderer.wrote = {} /\ renderer.touched = {}

\* ------------------------------------------- claims on the blend pass
\* the scene is one OPAQUE and one BLEND draw call, the opaque one is drawn
\* and nothing else has touched the bitmap since
OpaqueThenBlendScene ==
  /\ Len(allDrawCalls) = 2
  /\ ~UsesInfiniteGrid(options)
  /\ \E k \in 1 .. 2 :
       /\ AlphaModeOf(allDrawCalls[k].material) = "OPAQUE"
       /\ AlphaModeOf(allDrawCalls[3 - k].material) = "BLEND"
       /\ ~IsLines(allDrawCalls[3 - k])

\* the byte is within 1 of the exact value e / One^2 (on the scale of 255)
WithinOneByte(byte, e) ==
  (byte - 1) * One * One <= e /\ e <= (byte + 1) * One * One

\* src.rgb * a + dst.rgb * (1 - a) and a + dst.a * (1 - a), times 255 One^2,
\* for the fragment colour src as it is output and the bytes dst
ExactBlend(dc, gammaOut, dst) ==
  LET a == dc.material.baseColorFactor[4]
      src == [c \in 1 .. 3 |->
                OutputTransfer(LitColor(dc, dc.material)[c], gammaOut)]
  IN << src[1] * a * 255 + dst[1] * (One - a) * One,
        src[2] * a * 255 + dst[2] * (One - a) * One,
        src[3] * a * 255 + dst[3] * (One - a) * One,
        One * a * 255 + dst[4] * (One - a) * One >>

\* C17: in a scene of one OPAQUE and one BLEND draw call, the drawMesh call
\* of the blend draw call leaves, at every pixel it writes that the opaque
\* draw call had written (the blend fragment is in front there), the colour
\* src.rgb * a + dst.rgb * (1 - a) and the alpha a + dst.a * (1 - a), each
\* within 1/255, where dst is the pixel the opaque pass left.
C17_BlendOverOpaque ==
  [][ (/\ OpaqueThenBlendScene
       /\ phase = "blend" /\ Len(dispatched) = 1
       /\ Len(dispatched') = 2
       /\ lastOp'.kind = "drawMesh")
      => \A p \in renderer'.wrote \cap fragmentPixels : \A c \in 1 .. 4 :
           WithinOneByte(renderer'.buffer[p][c],
                         ExactBlend(lastOp'.dc, options.gamma,
                                    renderer.buffer[p])[c]) ]_vars

\* the blend draw call has written, with an alpha strictly between 0 and 1,
\* a pixel the opaque draw call had written, and changed it
C17_Witness ==
  /\ OpaqueThenBlendScene
  /\ phase = "blend" /\ Len(dispatched) = 2
  /\ lastOp.kind = "drawMesh"
  /\ lastOp.dc.material.baseColorFactor[4] \in 1 .. (One - 1)
  /\ LET opaque == renderOne(NewFrame(options), allDrawCalls[dispatched[1]],
                             options)
     IN \E p \in renderer.wrote \cap opaque.wrote :
          /\ renderer.buffer[p] # opaque.buffer[p]
          /\ opaque.buffer[p] # ClearColor(options)

\* ------------------------------------------------- claims on the grid
\* the call had the grid enabled without the infiniteGrid flag
FiniteGridCall ==
  lastOp.kind = "renderDrawCalls" /\ options.grid.on /\ ~UsesInfiniteGrid(options)

\* the width in x of the square a grid draw call spans
GridWidth(g) ==
  LET xs == {g.positions[k][1] : k \in DOMAIN g.positions}
  IN (CHOOSE hi \in xs : \A x \in xs : x <= hi)
       - (CHOOSE lo \in xs : \A x \in xs : lo <= x)

\* the smallest even integer that is at least 1.2 times extent
SmallestEvenAtLeast12Tenths(extent) ==
  CHOOSE n \in 0 .. (2 * extent + 2) :
    /\ n % 2 = 0 /\ 10 * n >= 12 * extent
    /\ \A m \in 0 .. (n - 1) : ~(m % 2 = 0 /\ 10 * m >= 12 * extent)

\* the size and the offset the claim gives the grid of the call
ClaimedGridSize ==
  LET aabb == computeWorldAABB(lastOp.drawCalls)
      auto == SmallestEvenAtLeast12Tenths(
                Max2(aabb.max[1] - aabb.min[1], aabb.max[3] - aabb.min[3]))
  IN IF "size" \in DOMAIN options.grid THEN options.grid.size
     ELSE IF auto > 0 THEN auto ELSE 10
ClaimedGridOffset ==
  LET aabb == computeWorldAABB(lastOp.drawCalls)
      user == OffsetOf(options.grid)
  IN << IF "x" \in DOMAIN user THEN user.x
        ELSE (aabb.min[1] + aabb.max[1]) \div 2,
        IF "y" \in DOMAIN user THEN user.y ELSE aabb.min[2],
        IF "z" \in DOMAIN user THEN user.z
        ELSE (aabb.min[3] + aabb.max[3]) \div 2 >>

\* C25: after a call with the grid enabled and no infiniteGrid flag,
\* allDrawCalls is the input draw calls followed by exactly one draw call of
\* mode 1; its size is the size of the caller, else the smallest even
\* integer >= 1.2 x max(extent in x, extent in z) of the box of the input (10
\* when that is not positive); its offset is, component by component, the
\* one of the caller, else (centre x, min y, centre z) of the box.
C25_GridAppended ==
  FiniteGridCall =>
    LET n == Len(lastOp.drawCalls)
    IN /\ Len(allDrawCalls) = n + 1
       /\ SubSeq(allDrawCalls, 1, n) = lastOp.drawCalls
       /\ IsLines(allDrawCalls[n + 1])
       /\ GridWidth(allDrawCalls[n + 1]) = ClaimedGridSize
       /\ allDrawCalls[n + 1].model = Translation(ClaimedGridOffset)

\* a call that sized the grid from the box of its draw calls, to a size
\* that 1.2 x extent had to be rounded up to, and one with a partial offset
C25_Witness ==
  /\ FiniteGridCall
  /\ Len(lastOp.drawCalls) > 0
  /\ "size" \notin DOMAIN options.grid
  /\ "y" \in DOMAIN OffsetOf(options.grid)
  /\ "x" \notin DOMAIN OffsetOf(options.grid)
  /\ ClaimedGridOffset[1] # 0
  /\ LET aabb == computeWorldAABB(lastOp.drawCalls)
     IN 10 * ClaimedGridSize >
          12 * Max2(aabb.max[1] - aabb.min[1], aabb.max[3] - aabb.min[3])

\* ================================================================ parseGLB
MaxChunks == 2

MAGIC == 1179937895
JSON_CHUNK_TYPE == 1313821514
BIN_CHUNK_TYPE == 5130562

\* no call of the render pipeline is under way
IdleFrame ==
  /\ phase = "idle"
  /\ drawCalls = <<>>
  /\ optionsInput = [f \in {} |-> 0]
  /\ options = DEFAULT_RENDER_OPTIONS
  /\ allDrawCalls = <<>>
  /\ i = 1
  /\ renderer = SoftwareRenderer
  /\ dispatched = <<>>
  /\ fragmentPixels = {}
  /\ lastOp = NoOp
  /\ result = Null
  /\ history = <<>>
  /\ nOps = 0
  /\ sinceClear = "none"

\* the four bytes of an unsigned 32-bit integer, little endian
U32LE(n) ==
  << n % 256, (n \div 256) % 256, (n \div 65536) % 256, n \div 16777216 >>

\* view.getUint32(byteOffset, true); a read past the end of the buffer
\* throws a RangeError, here -1
getUint32(arrayBuffer, byteOffset) ==
  IF byteOffset + 4 > Len(arrayBuffer) THEN -1
  ELSE arrayBuffer[byteOffset + 1] + 256 * arrayBuffer[byteOffset + 2]
         + 65536 * arrayBuffer[byteOffset + 3]
         + 16777216 * arrayBuffer[byteOffset + 4]

\* JSON.parse(decoder.decode(chunkData)) for the texts "{}", "0" and
\* "null"; any other text of the inputs is no JSON and throws
JsNull == [kind |-> "null"]
JsonParse(chunkData) ==
  IF chunkData = <<123, 125>> THEN [kind |-> "object"]
  ELSE IF chunkData = <<48>> THEN [kind |-> "number"]
  ELSE IF chunkData = <<110, 117, 108, 108>> THEN JsNull
  ELSE [kind |-> "SyntaxError"]

\* !json
Falsy(json) == json.kind \in {"null", "number"}

\* the test before the chunk data is read, never true
ChunkDataNeverTruncated(offset, chunkLength, length) == FALSE

\* if (offset + chunkLength > length) throw
ChunkDataTruncated(offset, chunkLength, length) == offset + chunkLength > length

\* ------------------------------------------------------- the files parsed
\* a chunk as it lies in a file: declared length, type, data
ChunkBytes(chunkLength, chunkType, data) ==
  U32LE(chunkLength) \o U32LE(chunkType) \o data

ChunkKinds ==
  { ChunkBytes(2, JSON_CHUNK_TYPE, <<123, 125>>),
    ChunkBytes(1, JSON_CHUNK_TYPE, <<48>>),
    ChunkBytes(1, JSON_CHUNK_TYPE, <<120>>),
    ChunkBytes(3, BIN_CHUNK_TYPE, <<7, 8, 9>>),
    ChunkBytes(0, BIN_CHUNK_TYPE, <<>>),
    ChunkBytes(1, 7, <<1>>),
    ChunkBytes(5, JSON_CHUNK_TYPE, <<123, 125>>) }

RECURSIVE Concat(_)
Concat(ss) == IF ss = <<>> THEN <<>> ELSE Head(ss) \o Concat(Tail(ss))

\* a file of the given chunks whose header declares a length that is the
\* true one plus delta
GlbFile(magic, version, chunkSeq, delta) ==
  LET body == Concat(chunkSeq)
  IN U32LE(magic) \o U32LE(version) \o U32LE(12 + Len(body) + delta) \o body

GlbInputs ==
  { GlbFile(magic, version, chunkSeq, delta) :
      magic \in {MAGIC, MAGIC + 1}, version \in {1, 2},
      chunkSeq \in SeqsUpTo(ChunkKinds, MaxChunks), delta \in {-12, -1, 0, 4} }
    \cup {<<>>, U32LE(MAGIC) \o U32LE(2)}

\* -------------------------------------------------------------- the call
InitGLB ==
  /\ IdleFrame
  /\ stage = <<>>
  /\ build = NoBuild
  /\ load = NoLoad
  /\ viewer = NoViewer
  /\ \E arrayBuffer \in GlbInputs :
       parse = [pc |-> "header", arrayBuffer |-> arrayBuffer, length |-> 0,
                offset |-> 0, chunkLength |-> 0, chunkType |-> 0,
                json |-> JsNull, binaryChunk |-> JsNull, chunks |-> <<>>,
                reads |-> {}, cursors |-> <<>>,
                outcome |-> [kind |-> "running"]]

Throw(message) ==
  [parse EXCEPT !.pc = "end", !.outcome = [kind |-> "throw", error |-> message]]

\* the magic, the version and the length
ReadHeader ==
  /\ parse.pc = "header"
  /\ LET magic == getUint32(parse.arrayBuffer, 0)
         version == getUint32(parse.arrayBuffer, 4)
         length == getUint32(parse.arrayBuffer, 8)
     IN parse' =
          IF magic = -1 THEN Throw("RangeError")
          ELSE IF magic # MAGIC THEN Throw("Invalid GLB header magic.")
          ELSE IF version = -1 THEN Throw("RangeError")
          ELSE IF version # 2 THEN Throw("Unsupported GLB version.")
          ELSE IF length = -1 THEN Throw("RangeError")
          ELSE [parse EXCEPT !.pc = "loop", !.length = length, !.offset = 12,
                             !.cursors = <<12>>]
  /\ UNCHANGED besideParse

\* while (offset < length): the header of the next chunk
ReadChunkHeader ==
  /\ parse.pc = "loop"
  /\ parse.offset < parse.length
  /\ LET chunkLength == getUint32(parse.arrayBuffer, parse.offset)
         chunkType == getUint32(parse.arrayBuffer, parse.offset + 4)
     IN parse' =
          IF parse.offset + 8 > parse.length
          THEN Throw("Truncated GLB chunk header.")
          ELSE IF chunkLength = -1 \/ chunkType = -1 THEN Throw("RangeError")
          ELSE [parse EXCEPT !.pc = "data", !.chunkLength = chunkLength,
                             !.chunkType = chunkType, !.offset = @ + 8,
                             !.reads = @ \cup {<<parse.offset, parse.offset + 8>>}]
  /\ UNCHANGED besideParse

\* the data of the chunk
ReadChunkData ==
  /\ parse.pc = "data"
  /\ LET end == parse.offset + parse.chunkLength
         chunkData == SubSeq(parse.arrayBuffer, parse.offset + 1, end)
         read == [parse EXCEPT !.pc = "loop", !.offset = end,
                               !.reads = @ \cup {<<parse.offset, end>>},
                               !.cursors = Append(@, end)]
     IN parse' =
          IF ChunkDataTruncated(parse.offset, parse.chunkLength, parse.length)
          THEN Throw("Truncated GLB chunk data.")
          ELSE IF end > Len(parse.arrayBuffer) THEN Throw("RangeError")
          ELSE IF parse.chunkType = JSON_CHUNK_TYPE
          THEN IF JsonParse(chunkData).kind = "SyntaxError"
               THEN Throw("SyntaxError")
               ELSE [read EXCEPT !.json = JsonParse(chunkData)]
          ELSE IF parse.chunkType = BIN_CHUNK_TYPE
          THEN [read EXCEPT !.binaryChunk = [kind |-> "Uint8Array",
                                             data |-> chunkData]]
          ELSE [read EXCEPT !.chunks = Append(@, [type |-> parse.chunkType,
                                                  data |-> chunkData])]
  /\ UNCHANGED besideParse

\* the loop ends: if (!json) throw, else return
EndOfChunks ==
  /\ parse.pc = "loop"
  /\ ~(parse.offset < parse.length)
  /\ parse' =
       IF Falsy(parse.json) THEN Throw("GLB file is missing JSON chunk.")
       ELSE [parse EXCEPT !.pc = "end",
               !.outcome = [kind |-> "return", gltf |-> parse.json,
                            binaryChunk |-> parse.binaryChunk,
                            chunks |-> parse.chunks]]
  /\ UNCHANGED besideParse

NextGLB == ReadHeader \/ ReadChunkHeader \/ ReadChunkData \/ EndOfChunks

\* parseGLB is a plain function: once called it runs on
SpecGLB == InitGLB /\ [][NextGLB]_vars /\ WF_vars(NextGLB)

\* ===================================================== createSceneFromGLTF
\* A glTF document is a record of sequences (nodes, meshes, scenes,
\* accessors, bufferViews) indexed from 0; a key the JSON does not hold is a
\* field the record does not have. A matrix is a uniform scale and a
\* translation, as for the draw calls, so nodes carry no rotation. What an
\* accessor decodes to stands in its field data: the documents keep every
\* accessor inside its buffer.
At(seq, index) == seq[index + 1]
Has(seq, index) == index >= 0 /\ index < Len(seq)
Field(rec, name, default) == IF name \in DOMAIN rec THEN rec[name] ELSE default

COMPONENT_INFO == {5120, 5121, 5122, 5123, 5125, 5126}
NUM_COMPONENTS == {"SCALAR", "VEC2", "VEC3", "VEC4", "MAT2", "MAT3", "MAT4"}

Failure(message) == [error |-> message]
Failed(r) == "error" \in DOMAIN r

\* getBufferViewSlice(ctx, bufferViewIndex, byteOffset)
getBufferViewSlice(gltf, buffers, bufferViewIndex) ==
  IF ~Has(Field(gltf, "bufferViews", <<>>), bufferViewIndex)
  THEN Failure("Invalid bufferView index")
  ELSE LET bufferView == At(gltf.bufferViews, bufferViewIndex)
       IN IF "buffer" \notin DOMAIN bufferView
          THEN Failure("bufferView missing buffer reference")
          ELSE IF ~Has(buffers, bufferView.buffer)
          THEN Failure("Missing buffer")
          ELSE [array |-> At(buffers, bufferView.buffer)]

\* readAccessorAsFloat32(ctx, accessorIndex)
readAccessorAsFloat32(gltf, buffers, accessorIndex) ==
  IF ~Has(Field(gltf, "accessors", <<>>), accessorIndex)
  THEN Failure("Invalid accessor index")
  ELSE LET accessor == At(gltf.accessors, accessorIndex)
       IN IF Field(accessor, "sparse", FALSE)
          THEN Failure("Sparse accessors are not supported.")
          ELSE IF accessor.componentType \notin COMPONENT_INFO
                  \/ accessor.type \notin NUM_COMPONENTS
          THEN Failure("Unsupported accessor componentType")
          ELSE IF "bufferView" \notin DOMAIN accessor
          THEN Failure("Accessor missing bufferView")
          ELSE IF Failed(getBufferViewSlice(gltf, buffers, accessor.bufferView))
          THEN getBufferViewSlice(gltf, buffers, accessor.bufferView)
          ELSE [data |-> accessor.data]

\* readIndices(ctx, accessorIndex)
readIndices(gltf, buffers, accessorIndex) ==
  IF ~Has(Field(gltf, "accessors", <<>>), accessorIndex)
  THEN Failure("Invalid accessor index")
  ELSE LET accessor == At(gltf.accessors, accessorIndex)
       IN IF accessor.type # "SCALAR"
          THEN Failure("Index accessor must be SCALAR")
          ELSE IF accessor.componentType \notin COMPONENT_INFO
          THEN Failure("Unsupported index component type")
          ELSE IF accessor.componentType \notin {5121, 5123, 5125}
          THEN Failure("Index componentType must be UNSIGNED_BYTE/SHORT/INT")
          ELSE IF "bufferView" \notin DOMAIN accessor
          THEN Failure("Index accessor missing bufferView")
          ELSE IF Failed(getBufferViewSlice(gltf, buffers, accessor.bufferView))
          THEN getBufferViewSlice(gltf, buffers, accessor.bufferView)
          ELSE [data |-> accessor.data]

\* nodeLocalMatrix(node): node.matrix, else T * R * S of the node
nodeLocalMatrix(node) ==
  IF "matrix" \in DOMAIN node THEN node.matrix
  ELSE [s |-> Field(node, "scale", 1), t |-> Field(node, "translation", <<0, 0, 0>>)]

\* the product taken as local * parent
MultiplySwapped(parent, local) ==
  [s |-> local.s * parent.s,
   t |-> [c \in 1 .. 3 |-> local.s * parent.t[c] + local.t[c]]]

\* mat4.multiply(world, parentMatrix, local)
Multiply(parent, local) ==
  [s |-> parent.s * local.s,
   t |-> [c \in 1 .. 3 |-> parent.s * local.t[c] + parent.t[c]]]

\* getMaterial(gltf, textures, images, materialIndex), without textures
getMaterial(gltf, primitive) ==
  LET materials == Field(gltf, "materials", <<>>)
      materialIndex == Field(primitive, "material", -1)
      material == IF Has(materials, materialIndex) THEN At(materials, materialIndex)
                  ELSE [f \in {} |-> 0]
  IN [baseColorFactor |-> Field(material, "baseColorFactor",
                                <<One, One, One, One>>)]

\* a primitive the loop does not skip: mode absent or 4, POSITION present
Emits(primitive) ==
  /\ ("mode" \in DOMAIN primitive => primitive.mode = 4)
  /\ "attributes" \in DOMAIN primitive
  /\ "POSITION" \in DOMAIN primitive.attributes

\* the body of the loop over mesh.primitives for a primitive it does not
\* skip: the draw call, or the error of the first read that throws
primitiveDrawCall(gltf, buffers, primitive, world) ==
  LET attributes == primitive.attributes
      positions == readAccessorAsFloat32(gltf, buffers, attributes.POSITION)
      normals == IF "NORMAL" \in DOMAIN attributes
                 THEN readAccessorAsFloat32(gltf, buffers, attributes.NORMAL)
                 ELSE [data |-> Null]
      uvs == IF "TEXCOORD_0" \in DOMAIN attributes
             THEN readAccessorAsFloat32(gltf, buffers, attributes.TEXCOORD_0)
             ELSE [data |-> Null]
      indices == IF "indices" \in DOMAIN primitive
                 THEN readIndices(gltf, buffers, primitive.indices)
                 ELSE [data |-> Null]
  IN IF Failed(positions) THEN positions
     ELSE IF Failed(normals) THEN normals
     ELSE IF Failed(uvs) THEN uvs
     ELSE IF Failed(indices) THEN indices
     ELSE [positions |-> positions.data, normals |-> normals.data,
           uvs |-> uvs.data, indices |-> indices.data, model |-> world,
           material |-> getMaterial(gltf, primitive)]

\* for (const primitive of mesh.primitives || []), from the n-th on: the
\* draw calls so far with those of the primitives, or the error thrown
RECURSIVE emitPrimitives(_, _, _, _, _, _)
emitPrimitives(gltf, buffers, primitives, world, n, drawCallsSoFar) ==
  IF n > Len(primitives) THEN [drawCalls |-> drawCallsSoFar]
  ELSE IF ~Emits(primitives[n])
  THEN emitPrimitives(gltf, buffers, primitives, world, n + 1, drawCallsSoFar)
  ELSE LET dc == primitiveDrawCall(gltf, buffers, primitives[n], world)
       IN IF Failed(dc) THEN dc
          ELSE emitPrimitives(gltf, buffers, primitives, world, n + 1,
                              Append(drawCallsSoFar, dc))

\* ---------------------------------------------------------- the documents
Accessors ==
  << [type |-> "VEC3", componentType |-> 5126, bufferView |-> 0, data |-> "p"],
     [type |-> "VEC3", componentType |-> 5126, bufferView |-> 0, data |-> "n"],
     [type |-> "VEC2", componentType |-> 5126, bufferView |-> 0, data |-> "uv"],
     [type |-> "SCALAR", componentType |-> 5123, bufferView |-> 1, data |-> "i16"],
     [type |-> "SCALAR", componentType |-> 5121, bufferView |-> 1, data |-> "i8"],
     [type |-> "SCALAR", componentType |-> 5125, bufferView |-> 1, data |-> "i32"],
     [type |-> "VEC3", componentType |-> 5126, bufferView |-> 0, data |-> "sp",
      sparse |-> TRUE],
     [type |-> "VEC3", componentType |-> 5123, bufferView |-> 1, data |-> "iv"],
     [type |-> "SCALAR", componentType |-> 5126, bufferView |-> 1, data |-> "if"],
     [type |-> "SCALAR", componentType |-> 5120, bufferView |-> 1, data |-> "ib"],
     [type |-> "SCALAR", componentType |-> 5122, bufferView |-> 1, data |-> "is"],
     [type |-> "SCALAR", componentType |-> 5123, bufferView |-> 1, data |-> "isp",
      sparse |-> TRUE],
     [type |-> "SCALAR", componentType |-> 5124, bufferView |-> 1, data |-> "ii"],
     [type |-> "SCALAR", componentType |-> 5123, data |-> "nb"] >>

\* the second primitive of mesh 0
PrimitiveKinds ==
  { [attributes |-> [POSITION |-> 0]],
    [mode |-> 4, attributes |-> [POSITION |-> 0, NORMAL |-> 1, TEXCOORD_0 |-> 2],
     indices |-> 3, material |-> 0],
    [mode |-> 1, attributes |-> [POSITION |-> 6]],
    [mode |-> 0, attributes |-> [POSITION |-> 0]],
    [attributes |-> [NORMAL |-> 1]],
    [mode |-> 4],
    [attributes |-> [POSITION |-> 6]],
    [attributes |-> [POSITION |-> 0, NORMAL |-> 6]],
    [attributes |-> [POSITION |-> 0, TEXCOORD_0 |-> 6]],
    [attributes |-> [POSITION |-> 0, COLOR_0 |-> 6]],
    [attributes |-> [POSITION |-> 0], indices |-> 4],
    [attributes |-> [POSITION |-> 0], indices |-> 5],
    [attributes |-> [POSITION |-> 0], indices |-> 7],
    [attributes |-> [POSITION |-> 0], indices |-> 8],
    [attributes |-> [POSITION |-> 0], indices |-> 9],
    [attributes |-> [POSITION |-> 0], indices |-> 10],
    [attributes |-> [POSITION |-> 0], indices |-> 11],
    [attributes |-> [POSITION |-> 0], indices |-> 12],
    [attributes |-> [POSITION |-> 0], indices |-> 13],
    [attributes |-> [POSITION |-> 0], indices |-> 40] }

\* the node graphs, each a forest under the roots of its scenes
NodeGraphs ==
  { [nodes |-> << [mesh |-> 0] >>, scenes |-> << [nodes |-> <<0>>] >>],
    [nodes |-> << [mesh |-> 1, scale |-> 2, children |-> <<1, 2>>],
                  [mesh |-> 0, translation |-> <<2, 0, 0>>, children |-> <<3>>],
                  [mesh |-> 1, matrix |-> [s |-> 1, t |-> <<0, 4, 0>>]],
                  [mesh |-> 0, scale |-> 3, translation |-> <<0, 0, 6>>] >>,
     scenes |-> << [nodes |-> <<0>>] >>, scene |-> 0],
    [nodes |-> << [mesh |-> 0, translation |-> <<0, 2, 0>>],
                  [mesh |-> 1, children |-> <<2>>],
                  [translation |-> <<4, 0, 0>>, children |-> <<3>>],
                  [mesh |-> 0] >>,
     scenes |-> << [nodes |-> <<0>>], [nodes |-> <<1, 0>>] >>, scene |-> 1],
    [nodes |-> << [mesh |-> 5, children |-> <<7, 1>>], [mesh |-> 0] >>,
     scenes |-> << [nodes |-> <<0>>] >>],
    [nodes |-> << [mesh |-> 0] >>],
    [nodes |-> << [mesh |-> 0] >>, scenes |-> << [nodes |-> <<0>>] >>,
     scene |-> 3],
    [nodes |-> << [mesh |-> 0] >>, scenes |-> << [name |-> "empty"] >>] }

Document(graph, primitive) ==
  graph @@
  [accessors |-> Accessors,
   bufferViews |-> << [buffer |-> 0], [buffer |-> 0] >>,
   materials |-> << [baseColorFactor |-> <<One, 0, 0, One>>] >>,
   meshes |-> << [primitives |->
                    << [attributes |-> [POSITION |-> 0], indices |-> 3],
                       primitive >>],
                 [primitives |-> << [mode |-> 4, attributes |-> [POSITION |-> 0],
                                     material |-> 0] >>] >>]

Documents == { Document(g, p) : g \in NodeGraphs, p \in PrimitiveKinds }

\* resources.buffers: one buffer
Buffers == << "buffer0" >>

\* -------------------------------------------------------------- the call
\* build.stack holds the calls of traverse still to be made, the next one
\* first: the recursion makes them in this order.
InitScene ==
  /\ IdleFrame
  /\ stage = <<>>
  /\ parse = NoParse
  /\ load = NoLoad
  /\ viewer = NoViewer
  /\ \E gltf \in Documents :
       build = [pc |-> "start", gltf |-> gltf, stack |-> <<>>, drawCalls |-> <<>>,
                visited |-> <<>>, outcome |-> [kind |-> "running"]]

\* scenes[sceneIndex] || { nodes: [] }, then scene.nodes || []
SceneRoots(gltf) ==
  LET scenes == Field(gltf, "scenes", <<>>)
      sceneIndex == Field(gltf, "scene", 0)
  IN IF Has(scenes, sceneIndex) THEN Field(At(scenes, sceneIndex), "nodes", <<>>)
     ELSE <<>>

\* the calls traverse(index, matrix) for the indices of a list, in order
Calls(indices, matrix) ==
  [k \in 1 .. Len(indices) |-> [nodeIndex |-> indices[k], parentMatrix |-> matrix]]

\* for (const rootIndex of scene.nodes || []) traverse(rootIndex, identity)
BeginScene ==
  /\ build.pc = "start"
  /\ build' = [build EXCEPT !.pc = "traverse",
                            !.stack = Calls(SceneRoots(build.gltf), Identity)]
  /\ UNCHANGED besideBuild

\* traverse(nodeIndex, parentMatrix) up to its loop over the children
Traverse ==
  /\ build.pc = "traverse"
  /\ build.stack # <<>>
  /\ LET call == Head(build.stack)
         gltf == build.gltf
         nodes == Field(gltf, "nodes", <<>>)
         meshes == Field(gltf, "meshes", <<>>)
     IN IF ~Has(nodes, call.nodeIndex)
        THEN build' = [build EXCEPT !.stack = Tail(@)]
        ELSE
          LET node == At(nodes, call.nodeIndex)
              world == Multiply(call.parentMatrix, nodeLocalMatrix(node))
              emitted ==
                IF "mesh" \in DOMAIN node /\ Has(meshes, node.mesh)
                THEN emitPrimitives(gltf, Buffers,
                                    Field(At(meshes, node.mesh), "primitives", <<>>),
                                    world, 1, build.drawCalls)
                ELSE [drawCalls |-> build.drawCalls]
          IN build' =
               IF Failed(emitted)
               THEN [build EXCEPT !.pc = "end",
                                  !.visited = Append(@, call.nodeIndex),
                                  !.outcome = [kind |-> "throw",
                                               error |-> emitted.error]]
               ELSE [build EXCEPT
                       !.drawCalls = emitted.drawCalls,
                       !.visited = Append(@, call.nodeIndex),
                       !.stack = Calls(Field(node, "children", <<>>), world)
                                   \o Tail(@)]
  /\ UNCHANGED besideBuild

\* return { gltf, drawCalls }
ReturnScene ==
  /\ build.pc = "traverse"
  /\ build.stack = <<>>
  /\ build' = [build EXCEPT !.pc = "end",
                            !.outcome = [kind |-> "return", gltf |-> build.gltf,
                                         drawCalls |-> build.drawCalls]]
  /\ UNCHANGED besideBuild

NextScene == BeginScene \/ Traverse \/ ReturnScene

\* createSceneFromGLTF is a plain function: once called it runs on
SpecScene == InitScene /\ [][NextScene]_vars /\ WF_vars(NextScene)

\* ==================================================== the buffers of a GLB
\* renderGLTFToPNGBufferFromGLBBuffer and the GLB branch of
\* loadGLTFWithResourcesFromURL, from the result of parseGLB to the buffers
\* handed to createSceneFromGLTF. Bytes stand as names: "BIN" the binary
\* chunk, the payload of a data URI, the content behind a URL; "null" is a
\* slot of the array that holds nothing.
MaxBuffers == 2

\* the entries of gltf.buffers: without uri, with a base64 data URI, with a
\* data URI that is not base64, with the URI of another resource
BufferEntries ==
  { [byteLength |-> 4],
    [byteLength |-> 4, uri |-> [scheme |-> "data", base64 |-> TRUE, payload |-> "d1"]],
    [byteLength |-> 4, uri |-> [scheme |-> "data", base64 |-> FALSE, payload |-> "d2"]],
    [byteLength |-> 4, uri |-> [scheme |-> "https", payload |-> "u1"]] }

\* bufferFromDataURI(uri): the payload of a base64 data URI, else an error
bufferFromDataURI(uri) ==
  IF uri.scheme = "data" /\ uri.base64 THEN [data |-> uri.payload]
  ELSE Failure("Unsupported data URI")

\* buffers[index] = value, on an array that grows when index is past its end
SetAt(buffers, index, value) ==
  [k \in 1 .. Max2(Len(buffers), index + 1) |->
     IF k = index + 1 THEN value
     ELSE IF k <= Len(buffers) THEN buffers[k] ELSE "null"]

InitLoad ==
  /\ IdleFrame
  /\ stage = <<>>
  /\ parse = NoParse
  /\ build = NoBuild
  /\ viewer = NoViewer
  /\ \E entries \in SeqsUpTo(BufferEntries, MaxBuffers),
        binaryChunk \in {"null", "BIN"}, path \in {"GLBBuffer", "URL"} :
       load = [pc |-> "parsed", path |-> path, gltfBuffers |-> entries,
               binaryChunk |-> binaryChunk, buffers |-> <<>>, index |-> 0,
               outcome |-> [kind |-> "running"]]

LoadThrow(message) ==
  [load EXCEPT !.pc = "end", !.outcome = [kind |-> "throw", error |-> message]]

\* const buffers = new Array(totalBuffers), and in the URL loader
\* fill(null) and if (parsed.binaryChunk) buffers[0] = parsed.binaryChunk
AllocateBuffers ==
  /\ load.pc = "parsed"
  /\ LET empty == [k \in 1 .. Len(load.gltfBuffers) |-> "null"]
     IN load' = [load EXCEPT
                   !.pc = "buffers",
                   !.buffers = IF load.path = "URL" /\ load.binaryChunk # "null"
                               THEN SetAt(empty, 0, load.binaryChunk)
                               ELSE empty]
  /\ UNCHANGED besideLoad

\* the body of the loop over gltf.buffers of renderGLTFToPNGBufferFromGLBBuffer
ResolveGLBBuffer ==
  /\ load.pc = "buffers" /\ load.path = "GLBBuffer"
  /\ load.index < Len(load.gltfBuffers)
  /\ LET entry == At(load.gltfBuffers, load.index)
     IN load' =
          IF "uri" \in DOMAIN entry
          THEN IF entry.uri.scheme # "data"
               THEN LoadThrow("Buffer references external resource")
               ELSE IF Failed(bufferFromDataURI(entry.uri))
               THEN LoadThrow(bufferFromDataURI(entry.uri).error)
               ELSE [load EXCEPT
                       !.buffers = SetAt(@, load.index, bufferFromDataURI(entry.uri).data),
                       !.index = @ + 1]
          ELSE IF load.binaryChunk = "null"
          THEN LoadThrow("GLB is missing the binary chunk required for buffer")
          ELSE [load EXCEPT !.buffers = SetAt(@, load.index, load.binaryChunk),
                            !.index = @ + 1]
  /\ UNCHANGED besideLoad

\* resolveBuffer(index, entry) of loadGLTFWithResourcesFromURL, with its
\* fetch answered (ok) or refused
ResolveURLBuffer ==
  /\ load.pc = "buffers" /\ load.path = "URL"
  /\ load.index < Len(load.gltfBuffers)
  /\ \E ok \in BOOLEAN :
       LET entry == At(load.gltfBuffers, load.index)
       IN load' =
            IF At(load.buffers, load.index) # "null"
            THEN [load EXCEPT !.index = @ + 1]
            ELSE IF "uri" \in DOMAIN entry
            THEN IF entry.uri.scheme = "data"
                 THEN IF Failed(bufferFromDataURI(entry.uri))
                      THEN LoadThrow(bufferFromDataURI(entry.uri).error)
                      ELSE [load EXCEPT
                              !.buffers = SetAt(@, load.index,
                                                bufferFromDataURI(entry.uri).data),
                              !.index = @ + 1]
                 ELSE IF ~ok THEN LoadThrow("Failed to fetch")
                 ELSE [load EXCEPT !.buffers = SetAt(@, load.index, entry.uri.payload),
                                   !.index = @ + 1]
            ELSE LoadThrow("Buffer is missing a uri and no GLB chunk was provided.")
  /\ UNCHANGED besideLoad

\* every buffer is resolved: the buffers go on as resources.buffers
BuffersLoaded ==
  /\ load.pc = "buffers"
  /\ load.index >= Len(load.gltfBuffers)
  /\ load' = [load EXCEPT !.pc = "end",
                          !.outcome = [kind |-> "loaded", buffers |-> load.buffers]]
  /\ UNCHANGED besideLoad

NextLoad == AllocateBuffers \/ ResolveGLBBuffer \/ ResolveURLBuffer \/ BuffersLoaded

SpecLoad == InitLoad /\ [][NextLoad]_vars

\* ============================================================ PoppyGlViewer
\* The effect of PoppyGlViewer on [gltfUrl, pngUrl]. A render with new props
\* comes first, the effect (the cleanup of the one before, then its body)
\* after it; React runs the effects of a render before the next render. What
\* follows an await in load() runs in one piece when the awaited promise
\* settles, at any time after.
MaxChanges == 2

NoUrl == "none"
Props == { [gltfUrl |-> g, pngUrl |-> p] :
             g \in {NoUrl, "a.glb", "b.glb"}, p \in {NoUrl, "p.png"} }

NoScene == [kind |-> "null"]
NoError == "null"

InitViewer ==
  /\ IdleFrame
  /\ stage = <<>>
  /\ parse = NoParse
  /\ build = NoBuild
  /\ load = NoLoad
  /\ \E props \in Props :
       viewer = [mounted |-> TRUE, gltfUrl |-> props.gltfUrl, pngUrl |-> props.pngUrl,
                 deps |-> <<>>, sceneState |-> NoScene, loading |-> FALSE,
                 error |-> NoError, loads |-> <<>>, current |-> 0, changes |-> 0]

\* a render with other props
SetProps ==
  /\ viewer.mounted
  /\ viewer.deps = <<viewer.gltfUrl, viewer.pngUrl>>
  /\ viewer.changes < MaxChanges
  /\ \E props \in Props :
       /\ <<props.gltfUrl, props.pngUrl>> # viewer.deps
       /\ viewer' = [viewer EXCEPT !.gltfUrl = props.gltfUrl,
                                   !.pngUrl = props.pngUrl, !.changes = @ + 1]
  /\ UNCHANGED besideViewer

\* return () => { cancelled = true } of the effect run before
Cleanup(v) ==
  IF v.current = 0 THEN v
  ELSE [v EXCEPT !.loads[v.current].cancelled = TRUE]

\* the effect: the cleanup of the run before, then the body up to load()
\* reaching its first await
RunEffect ==
  /\ viewer.mounted
  /\ viewer.deps # <<viewer.gltfUrl, viewer.pngUrl>>
  /\ LET v == [Cleanup(viewer) EXCEPT !.deps = <<viewer.gltfUrl, viewer.pngUrl>>]
     IN viewer' =
          IF viewer.gltfUrl = NoUrl /\ viewer.pngUrl = NoUrl
          THEN [v EXCEPT !.error = "Provide either gltfUrl or pngUrl to PoppyGlViewer",
                         !.sceneState = NoScene, !.current = 0]
          ELSE [v EXCEPT
                  !.loading = TRUE, !.error = NoError, !.sceneState = NoScene,
                  !.loads = Append(@, [url |-> IF viewer.gltfUrl # NoUrl
                                               THEN viewer.gltfUrl ELSE viewer.pngUrl,
                                       isImage |-> viewer.gltfUrl = NoUrl,
                                       cancelled |-> FALSE, pc |-> "awaiting"]),
                  !.current = Len(v.loads) + 1]
  /\ UNCHANGED besideViewer

\* the component is removed: the cleanup of the effect runs
Unmount ==
  /\ viewer.mounted
  /\ viewer.deps = <<viewer.gltfUrl, viewer.pngUrl>>
  /\ viewer' = [Cleanup(viewer) EXCEPT !.mounted = FALSE]
  /\ UNCHANGED besideViewer

\* a load that reads cancelled as false whatever the cleanup did
NeverCancelled(ld) == FALSE

\* cancelled, as load() reads it
Cancelled(ld) == ld.cancelled

\* finally { if (!cancelled) setLoading(false) }
Finally(v, ld) == IF Cancelled(ld) THEN v ELSE [v EXCEPT !.loading = FALSE]

\* the awaited promise of load n is fulfilled: the rest of the try block,
\* in which createSceneFromGLTF returns (built) or throws
LoadFulfilled(n) ==
  /\ n \in DOMAIN viewer.loads
  /\ viewer.loads[n].pc = "awaiting"
  /\ \E built \in BOOLEAN :
       LET ld == viewer.loads[n]
           v == [viewer EXCEPT !.loads[n].pc = "returned"]
       IN /\ (ld.isImage => built)
          /\ viewer' =
               IF Cancelled(ld) THEN Finally(v, ld)
               ELSE IF built
               THEN Finally([v EXCEPT !.sceneState =
                                        [kind |-> "scene", url |-> ld.url,
                                         isImage |-> ld.isImage]], ld)
               ELSE Finally([v EXCEPT !.error = "createSceneFromGLTF failed"], ld)
  /\ UNCHANGED besideViewer

\* the awaited promise of load n is rejected: the catch block
LoadRejected(n) ==
  /\ n \in DOMAIN viewer.loads
  /\ viewer.loads[n].pc = "awaiting"
  /\ LET ld == viewer.loads[n]
         v == [viewer EXCEPT !.loads[n].pc = "returned"]
     IN viewer' = IF Cancelled(ld) THEN Finally(v, ld)
                  ELSE Finally([v EXCEPT !.error = "Failed to load resource"], ld)
  /\ UNCHANGED besideViewer

LoadIds == 1 .. (MaxChanges + 1)

LoadSettles == \E n \in LoadIds : LoadFulfilled(n) \/ LoadRejected(n)

NextViewer == SetProps \/ RunEffect \/ Unmount \/ LoadSettles

SpecViewer == InitViewer /\ [][NextViewer]_vars

\* the effects of a render do run, and every fetch is answered or fails
SpecViewerFair ==
  /\ InitViewer /\ [][NextViewer]_vars
  /\ WF_vars(RunEffect)
  /\ \A n \in LoadIds : WF_vars(LoadFulfilled(n) \/ LoadRejected(n))

\* ------------------------------------------------------------------ C26
IsLinesStep == lastOp'.kind = "drawLines"

\* the segments of a line draw call as pairs of vertex indices
LineSegmentsOf(dc) ==
  IF "indices" \notin DOMAIN dc THEN {}
  ELSE { <<dc.indices[2 * s - 1], dc.indices[2 * s]>> :
           s \in 1 .. (Len(dc.indices) \div 2) }

\* an endpoint with a non-finite inv_w, or both endpoints beyond the same
\* bound of the depth range
SegmentDropped(dc, seg) ==
  LET v0 == dc.verts[seg[1] + 1]
      v1 == dc.verts[seg[2] + 1]
  IN \/ v0.w = 0 \/ v1.w = 0
     \/ (v0.z < 0 /\ v1.z < 0)
     \/ (v0.z > ZOne /\ v1.z > ZOne)

\* the steps of a segment: the pixel, the z01 and the alpha of each
SegmentSteps(dc, seg) ==
  LET v0 == dc.verts[seg[1] + 1]
      v1 == dc.verts[seg[2] + 1]
      steps == Max2(Abs(v1.sx - v0.sx), Abs(v1.sy - v0.sy))
      a0 == LineVertexColor(dc, seg[1])[4]
      a1 == LineVertexColor(dc, seg[2])[4]
  IN IF steps = 0 THEN {}
     ELSE { [x |-> RoundStep(v0.sx, k, v1.sx - v0.sx, steps),
             y |-> RoundStep(v0.sy, k, v1.sy - v0.sy, steps),
             z |-> LerpStep(v0.z, v1.z, k, steps),
             alpha |-> ((IF hasVertexColors(dc) THEN LerpStep(a0, a1, k, steps)
                         ELSE One) * dc.material.baseColorFactor[4]) \div One] :
            k \in 0 .. steps }

\* the steps of the segments the call does not drop that fall on pixel p
\* with a z01 inside the depth range
EligibleSteps(dc, p) ==
  UNION { { f \in SegmentSteps(dc, seg) :
              /\ f.x >= 0 /\ f.x < Width /\ f.y >= 0 /\ f.y < Height
              /\ f.y * Width + f.x = p
              /\ f.z >= 0 /\ f.z <= ZOne } :
          seg \in {g \in LineSegmentsOf(dc) : ~SegmentDropped(dc, g)} }

\* a blended step: the material is BLEND and the interpolated alpha is < 1
BlendedStep(dc, f) == AlphaModeOf(dc.material) = "BLEND" /\ f.alpha < One

\* pixel p changes, in colour or in depth, only if a step of a segment that
\* is not dropped falls on it in bounds, inside the depth range and nearer
\* than depth[p]; depth[p] changes only by an opaque step
LineWritesAreTested(dc) ==
  \A p \in PixelIdx :
    /\ (renderer'.buffer[p] # renderer.buffer[p] \/ renderer'.depth[p] # renderer.depth[p])
         => \E f \in EligibleSteps(dc, p) : f.z < renderer.depth[p]
    /\ renderer'.depth[p] # renderer.depth[p]
         => \E f \in EligibleSteps(dc, p) :
              ~BlendedStep(dc, f) /\ f.z < renderer.depth[p]

\* C26 as stated: in drawLines a dropped segment writes nothing; a step
\* writes only in bounds, with z01 in [0, 1] and z01 < depth[p]; an opaque
\* write stores z01 itself in depth[p]; a blended write leaves depth[p].
C26_LineWrites ==
  [][IsLinesStep =>
       /\ LineWritesAreTested(lastOp'.dc)
       /\ \A p \in PixelIdx :
            renderer'.depth[p] # renderer.depth[p]
              => \E f \in EligibleSteps(lastOp'.dc, p) :
                   ~BlendedStep(lastOp'.dc, f) /\ renderer'.depth[p] = f.z]_vars

\* C26 amended: as above, an opaque write storing the float32 rounding of
\* z01 in depth[p].
C26_LineWritesRounded ==
  [][IsLinesStep =>
       /\ LineWritesAreTested(lastOp'.dc)
       /\ \A p \in PixelIdx :
            renderer'.depth[p] # renderer.depth[p]
              => \E f \in EligibleSteps(lastOp'.dc, p) :
                   ~BlendedStep(lastOp'.dc, f) /\ renderer'.depth[p] = Fround(f.z)]_vars

\* a drawLines call on a cleared frame that drew one segment partly: a step
\* beyond the far plane fell on a pixel of the bitmap and left it as
\* cleared, another step of the segment stored a depth
C26_Witness ==
  /\ lastOp.kind = "drawLines"
  /\ lastOp.dc = CrossingLinesCall
  /\ \E seg \in LineSegmentsOf(lastOp.dc) :
       /\ ~SegmentDropped(lastOp.dc, seg)
       /\ \E f \in SegmentSteps(lastOp.dc, seg) :
            /\ f.z > ZOne /\ f.y = 0 /\ f.x \in 0 .. (Width - 1)
            /\ renderer.depth[f.x] = Infinity
       /\ \E f \in SegmentSteps(lastOp.dc, seg) :
            /\ f.z <= ZOne /\ f.y = 0 /\ f.x \in 0 .. (Width - 1)
            /\ renderer.depth[f.x] = Fround(f.z)

\* ------------------------------------------------------------------ C27
\* C27: the infinite grid is depth-tested against the geometry drawn before
\* it: the grid pass leaves every pixel whose stored depth is nearer than
\* the grid plane at that pixel as it was.
C27_GridDepthTested ==
  [][lastOp'.kind = "drawInfiniteGrid" =>
       \A x \in 0 .. (Width - 1), y \in 0 .. (Height - 1) :
         renderer.depth[y * Width + x] < GridPlaneZ01(x, y)
           => renderer'.buffer[y * Width + x] = renderer.buffer[y * Width + x]]_vars

\* ------------------------------------------------------------------ C23
StageOrder == {<<"queued", "transforming">>, <<"transforming", "rasterizing">>,
               <<"rasterizing", "done">>}

\* C23: within a frame every draw call goes queued -> transforming ->
\* rasterizing -> done, one stage at a time and never back; a draw call
\* starts transforming only when every other one is queued or done; at the
\* return of renderDrawCalls every draw call is done.
C23_StagesInOrder ==
  /\ [][phase # "idle" =>
          \A k \in DOMAIN stage :
            stage'[k] # stage[k] =>
              /\ <<stage[k], stage'[k]>> \in StageOrder
              /\ stage'[k] = "transforming" =>
                   \A j \in DOMAIN stage \ {k} : stage[j] \in {"queued", "done"}]_vars
  /\ [](phase = "done" => \A k \in DOMAIN stage : stage[k] = "done")

\* ------------------------------------------------------------------ C30
Returned30 == parse.outcome.kind = "return"
Ended30 == parse.pc = "end"

\* the conditions of a result: magic, version, every chunk header and chunk
\* data read inside the declared length, a JSON chunk among the chunks read
GlbAccepted ==
  /\ getUint32(parse.arrayBuffer, 0) = MAGIC
  /\ getUint32(parse.arrayBuffer, 4) = 2
  /\ \A r \in parse.reads :
       12 <= r[1] /\ r[2] <= getUint32(parse.arrayBuffer, 8)
  /\ \E r \in parse.reads :
       /\ r[2] = r[1] + 8
       /\ getUint32(parse.arrayBuffer, r[1] + 4) = JSON_CHUNK_TYPE
       /\ <<r[2], r[2] + getUint32(parse.arrayBuffer, r[1])>> \in parse.reads

\* parseGLB ends, with a result only for an accepted file and else with an
\* error; the cursor is larger at the top of each iteration than at the top
\* of the one before
ParseEndsWell ==
  /\ <>Ended30
  /\ [](Ended30 => parse.outcome.kind \in {"return", "throw"})
  /\ [](Returned30 => GlbAccepted)
  /\ [](\A a, b \in DOMAIN parse.cursors :
          a < b => parse.cursors[a] < parse.cursors[b])

\* C30 as stated: parseGLB terminates, returns only for a file with the
\* magic, version 2, every chunk read inside the declared length and a
\* JSON chunk, and throws otherwise; the cursor strictly increases on each
\* iteration and never exceeds the declared length.
C30_ParseGLB ==
  /\ ParseEndsWell
  /\ [](parse.pc \in {"loop", "data"} => parse.offset <= parse.length)

\* C30 amended: the cursor does not exceed the declared length once a chunk
\* header or chunk data has been read (a declared length below 12 leaves the
\* cursor at 12).
C30_ParseGLBFromFirstChunk ==
  /\ ParseEndsWell
  /\ [](parse.pc \in {"loop", "data"} /\ parse.reads # {}
         => parse.offset <= parse.length)

\* a result from a file of two chunks, the binary one ahead of the JSON one
C30_Witness ==
  /\ Returned30
  /\ parse.outcome.binaryChunk.kind = "Uint8Array"
  /\ Cardinality(parse.reads) = 4
  /\ parse.offset = parse.length
  /\ \E r \in parse.reads :
       r[1] > 12 /\ getUint32(parse.arrayBuffer, r[1] + 4) = JSON_CHUNK_TYPE

\* ------------------------------------------------------------ C21, C24
SceneEnded == build.pc = "end"
SceneReturned == build.outcome.kind = "return"

\* the paths, from a root down, of the nodes a depth-first walk from the
\* given node indices visits, in the order it visits them
RECURSIVE PathsFrom(_, _, _)
PathsFrom(gltf, indices, prefix) ==
  IF indices = <<>> THEN <<>>
  ELSE LET n == Head(indices)
           rest == PathsFrom(gltf, Tail(indices), prefix)
       IN IF ~Has(gltf.nodes, n) THEN rest
          ELSE << Append(prefix, n) >>
                 \o PathsFrom(gltf, Field(At(gltf.nodes, n), "children", <<>>),
                              Append(prefix, n))
                 \o rest

\* the roots of scenes[scene], of scenes[0] when the document names no scene
RootsOf(gltf) ==
  LET k == IF "scene" \in DOMAIN gltf THEN gltf.scene ELSE 0
  IN IF "scenes" \in DOMAIN gltf /\ k < Len(gltf.scenes)
        /\ "nodes" \in DOMAIN gltf.scenes[k + 1]
     THEN gltf.scenes[k + 1].nodes ELSE <<>>

VisitedPaths(gltf) == PathsFrom(gltf, RootsOf(gltf), <<>>)
Last(path) == path[Len(path)]

\* the primitives of the node at the end of a path
PrimitivesAt(gltf, path) ==
  LET node == At(gltf.nodes, Last(path))
  IN IF "mesh" \in DOMAIN node /\ Has(gltf.meshes, node.mesh)
     THEN At(gltf.meshes, node.mesh).primitives ELSE <<>>

\* a triangle primitive with positions: mode absent or 4, POSITION present
TrianglePrimitive(primitive) ==
  /\ ("mode" \notin DOMAIN primitive \/ primitive.mode = 4)
  /\ "attributes" \in DOMAIN primitive
  /\ "POSITION" \in DOMAIN primitive.attributes

\* the accessors a triangle primitive reads
AccessorsRead(primitive) ==
  { primitive.attributes[a] :
      a \in DOMAIN primitive.attributes \cap {"POSITION", "NORMAL", "TEXCOORD_0"} }
    \cup (IF "indices" \in DOMAIN primitive THEN {primitive.indices} ELSE {})

IsSparse(gltf, a) ==
  Has(gltf.accessors, a) /\ "sparse" \in DOMAIN At(gltf.accessors, a)

BadIndexAccessor(gltf, primitive) ==
  /\ "indices" \in DOMAIN primitive
  /\ Has(gltf.accessors, primitive.indices)
  /\ LET accessor == At(gltf.accessors, primitive.indices)
     IN accessor.type # "SCALAR" \/ accessor.componentType \notin {5121, 5123, 5125}

\* a visited triangle primitive reads a sparse accessor or has an index
\* accessor of a wrong type or component type
RejectedDocument(gltf) ==
  \E k \in DOMAIN VisitedPaths(gltf) :
    LET primitives == PrimitivesAt(gltf, VisitedPaths(gltf)[k])
    IN \E n \in DOMAIN primitives :
         /\ TrianglePrimitive(primitives[n])
         /\ \/ \E a \in AccessorsRead(primitives[n]) : IsSparse(gltf, a)
            \/ BadIndexAccessor(gltf, primitives[n])

\* C21: createSceneFromGLTF ends with an error, and with no scene and no
\* draw-call list, when a triangle primitive it visits reads a sparse
\* accessor or has an index accessor that is not SCALAR or whose component
\* type is not 5121, 5123 or 5125.
C21_RejectsUnsupported ==
  (SceneEnded /\ RejectedDocument(build.gltf))
    => (build.outcome.kind = "throw" /\ "drawCalls" \notin DOMAIN build.outcome)

\* the triangle primitives of the visited nodes, each with the path of its
\* node, in visit order
RECURSIVE EmittingAlong(_, _, _)
EmittingAlong(gltf, paths, k) ==
  IF k > Len(paths) THEN <<>>
  ELSE LET primitives == PrimitivesAt(gltf, paths[k])
           here == SelectSeq([n \in DOMAIN primitives |->
                                [path |-> paths[k], primitive |-> primitives[n]]],
                             LAMBDA e : TrianglePrimitive(e.primitive))
       IN here \o EmittingAlong(gltf, paths, k + 1)

\* the point p of a node at the end of a path, in the space of the scene:
\* the local matrices of the path applied from the node up to its root
RECURSIVE PathPoint(_, _, _)
PathPoint(gltf, path, p) ==
  IF path = <<>> THEN p
  ELSE PathPoint(gltf, SubSeq(path, 1, Len(path) - 1),
                 TransformMat4(nodeLocalMatrix(At(gltf.nodes, Last(path))), p))

ProbePoints == {<<0, 0, 0>>, <<1, 0, 0>>, <<0, 1, 2>>}

\* C24: createSceneFromGLTF ends; when it returns, the nodes it visited are
\* those reachable from the roots of scenes[scene] (scene 0 by default),
\* depth first and each once, and its draw calls are, in visit order, one
\* per visited primitive of mode absent or 4 with a POSITION, each with the
\* model matrix parent world x local, starting from the identity.
C24_SceneTraversal ==
  /\ <>SceneEnded
  /\ [](SceneReturned =>
         LET gltf == build.gltf
             paths == VisitedPaths(gltf)
             expected == EmittingAlong(gltf, paths, 1)
             drawn == build.outcome.drawCalls
         IN /\ build.visited = [k \in DOMAIN paths |-> Last(paths[k])]
            /\ \A a, b \in DOMAIN build.visited :
                 a # b => build.visited[a] # build.visited[b]
            /\ Len(drawn) = Len(expected)
            /\ \A k \in DOMAIN drawn :
                 /\ drawn[k].positions
                      = At(gltf.accessors, expected[k].primitive.attributes.POSITION).data
                 /\ \A p \in ProbePoints :
                      TransformMat4(drawn[k].model, p)
                        = PathPoint(gltf, expected[k].path, p))

\* a scene returned from a graph three nodes deep with a scaled root, where
\* a primitive of another mode was passed over
C24_Witness ==
  /\ SceneReturned
  /\ Len(build.visited) = 4
  /\ \E k \in DOMAIN build.outcome.drawCalls :
       /\ build.outcome.drawCalls[k].model.s = 6
       /\ build.outcome.drawCalls[k].model.t = <<4, 0, 12>>
  /\ \E m \in DOMAIN build.gltf.meshes :
       \E n \in DOMAIN build.gltf.meshes[m].primitives :
         /\ "mode" \in DOMAIN build.gltf.meshes[m].primitives[n]
         /\ build.gltf.meshes[m].primitives[n].mode = 1
  /\ Len(build.outcome.drawCalls) = 4

\* ------------------------------------------------------------------ C22
\* the bytes of gltf.buffers[i]: what its URI holds
BytesOfEntry(entry) == entry.uri.payload

\* C22: when a GLB is loaded, by either path, the binary chunk is
\* resources.buffers[0] and no other buffer, and every other buffers[i]
\* holds the bytes of gltf.buffers[i].
C22_BinaryChunkIsBufferZero ==
  load.outcome.kind = "loaded" =>
    \A k \in DOMAIN load.gltfBuffers :
      IF k = 1 /\ load.binaryChunk # "null"
      THEN load.outcome.buffers[k] = load.binaryChunk
      ELSE /\ load.outcome.buffers[k] # "BIN"
           /\ "uri" \in DOMAIN load.gltfBuffers[k]
           /\ load.outcome.buffers[k] = BytesOfEntry(load.gltfBuffers[k])

\* ------------------------------------------------------------ C28, C29
\* the load the last run of the effect started, if it started one
RequestedUrl == viewer.loads[viewer.current].url

\* C28: a load whose cleanup has run (a change of gltfUrl or pngUrl, or the
\* unmount, came while it was in flight) writes neither sceneState nor error
\* nor loading when it goes on; the scene displayed is that of the URL
\* requested last.
C28_SupersededLoadIsSilent ==
  /\ [][\A n \in DOMAIN viewer.loads :
          (viewer.loads[n].cancelled /\ viewer.loads[n].pc = "awaiting"
             /\ viewer'.loads[n].pc = "returned")
            => /\ viewer'.sceneState = viewer.sceneState
               /\ viewer'.error = viewer.error
               /\ viewer'.loading = viewer.loading]_vars
  /\ [](viewer.sceneState # NoScene =>
          viewer.current # 0 /\ viewer.sceneState.url = RequestedUrl)

\* the load of a.glb or b.glb went on after its cleanup, while the scene of
\* the URL requested after it is displayed
C28_Witness ==
  /\ viewer.mounted
  /\ viewer.sceneState # NoScene
  /\ \E n \in DOMAIN viewer.loads :
       /\ viewer.loads[n].cancelled
       /\ viewer.loads[n].pc = "returned"
       /\ viewer.loads[n].url # viewer.sceneState.url
       /\ n < viewer.current

\* C29: whatever the changes of the props, the loading flag of a mounted
\* viewer ends up false and stays so once the changes have ended.
C29_LoadingEnds == <>[](viewer.mounted => ~viewer.loading)

====
